---- MODULE Spec2Model ----
(***************************************************************************)
(* The build pipeline orchestrator of src/src/rollup/index.ts:             *)
(* rollup() (input normalization, Graph construction, buildStart, build,   *)
(* buildEnd), and the generate / write operations of the handle it         *)
(* returns.  Promise chains are modelled step by step: every hook          *)
(* dispatch, Graph operation, chunk render and file write is a suspension  *)
(* point whose settlement (fulfilled or rejected) is a separate action.    *)
(***************************************************************************)
EXTENDS Integers, Sequences, FiniteSets, TLC

----------------------------------------------------------------------------
(* Bounds *)

\* installations of a watcher by setWatcher
MaxWatchers == 2

\* rollup() calls that may be in flight together
MaxCalls == 2
\* entries of a list or named-map entry specifier
MaxEntries == 2
\* length of the plugins array of an input configuration
MaxPlugins == 2

\* generate / write calls that may be in flight together on one handle
MaxGen == 2
\* chunks graph.build produced
MaxChunks == 2
\* assets standing in graph.assetsById when the build ends
MaxAssets == 1
\* assets one generate call emits during generateBundle
MaxEmit == 1

Calls == 1..MaxCalls

GenCalls == 1..MaxGen

----------------------------------------------------------------------------
(* Errors: an error object is identified by its code and message. *)

Err(code, message) == [code |-> code, message |-> message]

NoError == Err("NONE", "")

\* error({ code: 'INVALID_OPTION', message }) of utils/error
InvalidOption(message) == Err("INVALID_OPTION", message)

\* throw new Error(message): no code
PlainError(message) == Err("", message)

\* an error object created by a collaborator or by an extension's hook
PluginError(origin) == Err("PLUGIN_ERROR", origin)

----------------------------------------------------------------------------
(* Input configuration *)

\* the entry specifier: a single identifier, an ordered list, a named map
Inputs ==
    {[kind |-> "string", n |-> 1]}
      \cup {[kind |-> k, n |-> n] : k \in {"array", "object"}, n \in 0..MaxEntries}

Options ==
    [input : Inputs,
     inlineDynamicImports : BOOLEAN,
     manualChunks : BOOLEAN,
     optimizeChunks : BOOLEAN,
     preserveModules : BOOLEAN]

\* what one element of the plugins array does in its options hook
\*   falsy      the element is null / false / undefined
\*   noHook     a plugin without an options hook
\*   undef      the hook returns nothing
\*   the others return a replacement configuration, or throw
PluginKinds ==
    {"falsy", "noHook", "undef", "setInline", "clearManual", "twoEntries", "throws"}

RECURSIVE SeqsUpTo(_, _)
SeqsUpTo(S, n) ==
    IF n = 0 THEN {<<>>}
    ELSE LET shorter == SeqsUpTo(S, n - 1)
         IN  shorter \cup {Append(s, x) : s \in {t \in shorter : Len(t) = n - 1}, x \in S}

DefaultOptions ==
    [input |-> [kind |-> "string", n |-> 1],
     inlineDynamicImports |-> FALSE,
     manualChunks |-> FALSE,
     optimizeChunks |-> FALSE,
     preserveModules |-> FALSE]

\* rollup() called with no argument
MissingRaw == [present |-> FALSE, options |-> DefaultOptions, plugins |-> <<>>]

RawConfigs ==
    {MissingRaw}
      \cup [present : {TRUE}, options : Options, plugins : SeqsUpTo(PluginKinds, MaxPlugins)]

\* mergeOptions keeps the recognised input options of the raw object
mergeOptions(raw) == raw.options

\* inputOptions.plugins = plugins.filter(Boolean)
RECURSIVE FilterBoolean(_)
FilterBoolean(plugins) ==
    IF plugins = <<>> THEN <<>>
    ELSE IF Head(plugins) = "falsy" THEN FilterBoolean(Tail(plugins))
         ELSE <<Head(plugins)>> \o FilterBoolean(Tail(plugins))

\* plugin.options(inputOptions): the replacement configuration, or nothing
PluginOptionsHook(plugin, o) ==
    CASE plugin = "setInline"   -> [returned |-> TRUE, options |-> [o EXCEPT !.inlineDynamicImports = TRUE]]
      [] plugin = "clearManual" -> [returned |-> TRUE, options |-> [o EXCEPT !.manualChunks = FALSE]]
      [] plugin = "twoEntries"  -> [returned |-> TRUE, options |-> [o EXCEPT !.input = [kind |-> "array", n |-> 2]]]
      [] OTHER                  -> [returned |-> FALSE, options |-> o]

\* if (plugin.options) return plugin.options(inputOptions) || inputOptions;
\* return inputOptions;
applyOptionHook(inputOptions, plugin) ==
    IF plugin = "noHook" THEN inputOptions
    ELSE LET r == PluginOptionsHook(plugin, inputOptions)
         IN  IF r.returned THEN r.options ELSE inputOptions

\* inputOptions.plugins.reduce(applyOptionHook, inputOptions); a throwing hook
\* ends the reduction
RECURSIVE ReduceOptionHooks(_, _)
ReduceOptionHooks(plugins, inputOptions) ==
    IF plugins = <<>> THEN [threw |-> FALSE, options |-> inputOptions]
    ELSE IF Head(plugins) = "throws" THEN [threw |-> TRUE, options |-> inputOptions]
         ELSE ReduceOptionHooks(Tail(plugins), applyOptionHook(inputOptions, Head(plugins)))

\* (input instanceof Array && input.length > 1) ||
\* (typeof input === 'object' && Object.keys(input).length > 1)
MultipleInputs(input) ==
    \/ input.kind = "array" /\ input.n > 1
    \/ input.kind \in {"array", "object"} /\ input.n > 1

\* a variant without the preserveModules block
CheckInputOptionsInlineOnly(o) ==
    IF o.inlineDynamicImports /\ o.manualChunks
      THEN InvalidOption("\"manualChunks\" option is not supported for inlineDynamicImports.")
    ELSE IF o.inlineDynamicImports /\ o.optimizeChunks
      THEN InvalidOption("\"optimizeChunks\" option is not supported for inlineDynamicImports.")
    ELSE IF o.inlineDynamicImports /\ MultipleInputs(o.input)
      THEN InvalidOption("Multiple inputs are not supported for inlineDynamicImports.")
    ELSE NoError

\* the checks of getInputOptions after the options hooks, in source order:
\* the first error() call reached, or NoError
CheckInputOptions(o) ==
    IF o.inlineDynamicImports /\ o.manualChunks
      THEN InvalidOption("\"manualChunks\" option is not supported for inlineDynamicImports.")
    ELSE IF o.inlineDynamicImports /\ o.optimizeChunks
      THEN InvalidOption("\"optimizeChunks\" option is not supported for inlineDynamicImports.")
    ELSE IF o.inlineDynamicImports /\ MultipleInputs(o.input)
      THEN InvalidOption("Multiple inputs are not supported for inlineDynamicImports.")
    ELSE IF o.preserveModules /\ o.inlineDynamicImports
      THEN InvalidOption("preserveModules does not support the inlineDynamicImports option.")
    ELSE IF o.preserveModules /\ o.manualChunks
      THEN InvalidOption("preserveModules does not support the manualChunks option.")
    ELSE IF o.preserveModules /\ o.optimizeChunks
      THEN InvalidOption("preserveModules does not support the optimizeChunks option.")
    ELSE NoError

\* getInputOptions: [error, hooked, inputOptions]; error = NoError when it
\* returns inputOptions, hooked tells whether the options hooks all returned
getInputOptions(raw) ==
    IF ~raw.present
      THEN [error |-> PlainError("You must supply an options object to rollup"),
            hooked |-> FALSE, inputOptions |-> DefaultOptions]
    ELSE LET r == ReduceOptionHooks(FilterBoolean(raw.plugins), mergeOptions(raw))
         IN  IF r.threw
               THEN [error |-> PluginError("options"), hooked |-> FALSE,
                     inputOptions |-> DefaultOptions]
               ELSE [error |-> CheckInputOptions(r.options), hooked |-> TRUE,
                     inputOptions |-> r.options]

----------------------------------------------------------------------------
(* Output configuration.  An option that is not set is "". *)

OutputKeys ==
    {"format", "file", "dir", "sourcemap", "sourcemapFile", "entryFileNames", "chunkFileNames"}

NoOutput == [k \in OutputKeys |-> ""]

\* the output options of a call: none at all, or the object's own options
\* (top) and those of its output property (nested)
MissingRawOutput == [present |-> FALSE, top |-> NoOutput, nested |-> NoOutput]

RawOutput(top) == [present |-> TRUE, top |-> top, nested |-> NoOutput]

\* { ...a, ...b }: the keys b sets override those of a
Spread(a, b) == [k \in OutputKeys |-> IF b[k] # "" THEN b[k] ELSE a[k]]

\* mergeOptions({ config: { output }, deprecateConfig }).outputOptions[0]:
\* the recognised output options of the consolidated object
mergeOutputOptions(output) == output

\* checkOutputOptions: the error() call reached, or NoError (the messages
\* are written here without the quotation marks around es6 and esm)
checkOutputOptions(options) ==
    IF options.format = "es6"
      THEN PlainError("The es6 output format is deprecated - use esm instead")
    ELSE IF options.format = ""
      THEN PlainError("You must specify output.format, which can be one of 'amd', 'cjs', 'system', 'esm', 'iife' or 'umd'")
    ELSE NoError

\* the checks without the one on named inputs
CheckOutputCombinationNoNamedInputs(inputOptions, o, hasMultipleChunks) ==
    IF o.file # "" /\ o.dir # ""
      THEN InvalidOption("You must set either output.file for a single-file build or output.dir when generating multiple chunks.")
    ELSE IF o.file # "" /\ inputOptions.preserveModules
      THEN InvalidOption("You must set output.dir instead of output.file when using the preserveModules option.")
    ELSE IF hasMultipleChunks /\ o.format \in {"umd", "iife"}
      THEN InvalidOption("UMD and IIFE output formats are not supported for code-splitting builds.")
    ELSE IF hasMultipleChunks /\ o.file # ""
      THEN InvalidOption("You must set output.dir instead of output.file when generating multiple chunks.")
    ELSE NoError

\* the checks of normalizeOutputOptions after checkOutputOptions, in source
\* order
CheckOutputCombination(inputOptions, o, hasMultipleChunks) ==
    IF o.file # "" /\ o.dir # ""
      THEN InvalidOption("You must set either output.file for a single-file build or output.dir when generating multiple chunks.")
    ELSE IF o.file # "" /\ inputOptions.preserveModules
      THEN InvalidOption("You must set output.dir instead of output.file when using the preserveModules option.")
    ELSE IF o.file # "" /\ inputOptions.input.kind = "object"
      THEN InvalidOption("You must set output.dir instead of output.file when providing named inputs.")
    ELSE IF hasMultipleChunks /\ o.format \in {"umd", "iife"}
      THEN InvalidOption("UMD and IIFE output formats are not supported for code-splitting builds.")
    ELSE IF hasMultipleChunks /\ o.file # ""
      THEN InvalidOption("You must set output.dir instead of output.file when generating multiple chunks.")
    ELSE NoError

\* a variant that spreads the options of the call last
consolidatedCallSiteLast(inputOutput, rawOutputOptions) ==
    Spread(inputOutput, Spread(rawOutputOptions.top, rawOutputOptions.nested))

\* { ...rawOutputOptions, ...rawOutputOptions.output, ...inputOptions.output }
consolidatedOutputOptions(inputOutput, rawOutputOptions) ==
    Spread(Spread(rawOutputOptions.top, rawOutputOptions.nested), inputOutput)

\* normalizeOutputOptions: [error, outputOptions]; error = NoError when it
\* returns outputOptions
normalizeOutputOptions(inputOptions, inputOutput, rawOutputOptions, hasMultipleChunks) ==
    IF ~rawOutputOptions.present
      THEN [error |-> PlainError("You must supply an options object"),
            outputOptions |-> NoOutput]
    ELSE LET consolidated == consolidatedOutputOptions(inputOutput, rawOutputOptions)
             outputOptions == mergeOutputOptions(consolidated)
         IN  IF checkOutputOptions(outputOptions) # NoError
               THEN [error |-> checkOutputOptions(outputOptions),
                     outputOptions |-> outputOptions]
               ELSE [error |-> CheckOutputCombination(inputOptions, outputOptions,
                                                      hasMultipleChunks),
                     outputOptions |-> outputOptions]

----------------------------------------------------------------------------
(* rollup(): one record per call *)

VARIABLES
    curWatcher,   \* let curWatcher: 0 when undefined, else the installed watcher
    rc,           \* the rollup() calls
    inputOutput,  \* inputOptions.output of the handle
    chunks,       \* the chunk list graph.build resolved with
    assetsById,   \* graph.assetsById
    optimized,    \* let optimized
    nOptimize,    \* invocations of optimizeChunks
    gc            \* the generate / write calls on the handle

rvars == <<curWatcher, rc>>

hvars == <<inputOutput, chunks, assetsById, optimized, nOptimize, gc>>

vars == <<curWatcher, rc, inputOutput, chunks, assetsById, optimized, nOptimize, gc>>

\* settle    none | resolved (the handle is delivered) | rejected | threw
\* value     the rejection value
\* hooked    the options hooks of getInputOptions all returned, leaving inputOptions
\* graph     new Graph(...) returned
\* watcher   the watcher new Graph(inputOptions, curWatcher) was called with
\* buildStart, build, buildEnd    none | pending | ok | failed
\* nBuildEnd, buildEndArg         dispatches of buildEnd, and the last one's argument
\* err       the error the onRejected handler of the build chain received
\* buildErr  the error graph.build rejected with
\* buildEndErr   the error the buildEnd dispatch rejected with
IdleCall ==
    [settle |-> "none", value |-> NoError,
     hooked |-> FALSE, inputOptions |-> DefaultOptions,
     graph |-> FALSE, watcher |-> 0,
     buildStart |-> "none", build |-> "none", buildEnd |-> "none",
     nBuildEnd |-> 0, buildEndArg |-> NoError,
     err |-> NoError, buildErr |-> NoError, buildEndErr |-> NoError]

\* errors graph.build can reject with (a loader's, a transform hook's)
BuildErrors == {PluginError("build"), PluginError("transform")}

\* a variant that lets the exception escape rollup()
SyncFailureEscapes(r, err) == [r EXCEPT !.settle = "threw", !.value = err]

\* catch (err) { return Promise.reject(err); }
SyncFailure(r, err) == [r EXCEPT !.settle = "rejected", !.value = err]

\* the synchronous part of rollup(), up to the buildStart dispatch
rollupEntry(raw, watcher, graphThrows) ==
    LET g == getInputOptions(raw)
        r == [IdleCall EXCEPT !.hooked = g.hooked, !.inputOptions = g.inputOptions]
    IN  IF g.error # NoError THEN SyncFailure(r, g.error)
        ELSE IF graphThrows
               THEN SyncFailure([r EXCEPT !.watcher = watcher], PluginError("Graph"))
        ELSE [r EXCEPT !.graph = TRUE, !.watcher = watcher, !.buildStart = "pending"]

\* a variant that dispatches buildEnd without the error and swallows it
DispatchBuildEndDropsError(r, err) ==
    [r EXCEPT !.buildEnd = "pending", !.nBuildEnd = @ + 1, !.buildEndArg = NoError,
              !.err = NoError]

\* err => graph.pluginDriver.hookParallel('buildEnd', [err]).then(() => { throw err; })
DispatchBuildEndWithError(r, err) ==
    [r EXCEPT !.buildEnd = "pending", !.nBuildEnd = @ + 1, !.buildEndArg = err,
              !.err = err]

\* a variant that starts graph.build whatever buildStart did
OnBuildStartRejectedStillBuilds(r, err) ==
    [r EXCEPT !.buildStart = "failed", !.build = "pending"]

\* buildStart rejected: graph.build is skipped, the chain's onRejected runs
OnBuildStartRejected(r, err) ==
    DispatchBuildEndWithError([r EXCEPT !.buildStart = "failed"], err)

\* .then(() => graph.build(...))
OnBuildStartFulfilled(r) == [r EXCEPT !.buildStart = "ok", !.build = "pending"]

\* chunks => graph.pluginDriver.hookParallel('buildEnd').then(() => chunks)
OnBuildFulfilled(r) ==
    [r EXCEPT !.build = "ok", !.buildEnd = "pending", !.nBuildEnd = @ + 1,
              !.buildEndArg = NoError]

\* graph.build rejected
OnBuildRejected(r, err) ==
    DispatchBuildEndWithError([r EXCEPT !.build = "failed", !.buildErr = err], err)

\* buildEnd fulfilled: () => chunks, then the handle; or () => { throw err; }
OnBuildEndFulfilled(r) ==
    IF r.err # NoError
      THEN [r EXCEPT !.buildEnd = "ok", !.settle = "rejected", !.value = r.err]
      ELSE [r EXCEPT !.buildEnd = "ok", !.settle = "resolved"]

\* a variant that rethrows the error of the build when there is one
OnBuildEndRejectedRethrowsBuildError(r, err) ==
    [r EXCEPT !.buildEnd = "failed", !.buildEndErr = err, !.settle = "rejected",
              !.value = IF r.err # NoError THEN r.err ELSE err]

\* buildEnd rejected: neither .then callback runs
OnBuildEndRejected(r, err) ==
    [r EXCEPT !.buildEnd = "failed", !.buildEndErr = err, !.settle = "rejected",
              !.value = err]

\* what a failing buildEnd hook can throw: its own error, or the one it was given
BuildEndErrors(r) ==
    {PluginError("buildEnd")} \cup (IF r.buildEndArg # NoError THEN {r.buildEndArg} ELSE {})

(* the actions *)

\* the installations: a watcher is identified by the setWatcher call that
\* installed it
Watchers == 1..MaxWatchers

\* export function setWatcher(watcher) { curWatcher = watcher; }
setWatcher(w) ==
    /\ w # curWatcher
    /\ \A c \in Calls : rc[c].watcher # w
    /\ curWatcher' = w
    /\ UNCHANGED <<rc, hvars>>

RollupCall(c, raws) ==
    /\ rc[c] = IdleCall
    /\ \E raw \in raws, graphThrows \in BOOLEAN :
          LET r == rollupEntry(raw, curWatcher, graphThrows)
          IN  /\ rc' = [rc EXCEPT ![c] = r]
              \* curWatcher = undefined, after new Graph returned
              /\ curWatcher' = IF r.graph THEN 0 ELSE curWatcher
    /\ UNCHANGED hvars

BuildStartFulfilled(c) ==
    /\ rc[c].buildStart = "pending"
    /\ rc' = [rc EXCEPT ![c] = OnBuildStartFulfilled(@)]
    /\ UNCHANGED <<curWatcher, hvars>>

BuildStartRejected(c) ==
    /\ rc[c].buildStart = "pending"
    /\ rc' = [rc EXCEPT ![c] = OnBuildStartRejected(@, PluginError("buildStart"))]
    /\ UNCHANGED <<curWatcher, hvars>>

BuildFulfilled(c) ==
    /\ rc[c].build = "pending"
    /\ rc' = [rc EXCEPT ![c] = OnBuildFulfilled(@)]
    /\ UNCHANGED <<curWatcher, hvars>>

BuildRejected(c) ==
    /\ rc[c].build = "pending"
    /\ \E err \in BuildErrors : rc' = [rc EXCEPT ![c] = OnBuildRejected(@, err)]
    /\ UNCHANGED <<curWatcher, hvars>>

BuildEndFulfilled(c) ==
    /\ rc[c].buildEnd = "pending"
    /\ rc' = [rc EXCEPT ![c] = OnBuildEndFulfilled(@)]
    /\ UNCHANGED <<curWatcher, hvars>>

BuildEndRejected(c) ==
    /\ rc[c].buildEnd = "pending"
    /\ \E err \in BuildEndErrors(rc[c]) : rc' = [rc EXCEPT ![c] = OnBuildEndRejected(@, err)]
    /\ UNCHANGED <<curWatcher, hvars>>

RollupSteps(c) ==
    \/ BuildStartFulfilled(c)
    \/ BuildStartRejected(c)
    \/ BuildFulfilled(c)
    \/ BuildRejected(c)
    \/ BuildEndFulfilled(c)
    \/ BuildEndRejected(c)

----------------------------------------------------------------------------
(* The handle: chunks, assets, output bundles *)

\* a file name: the name it was made for, the pattern, the suffix that
\* makes it unique
Name(stem, pat, n) == [stem |-> stem, pat |-> pat, n |-> n]

NoName == Name("", "", 0)

\* a chunk: an entry facade (with an entry module) or a secondary chunk
ChunkKinds == {"entry", "secondary"}

Chunk(kind) ==
    [kind |-> kind, name |-> IF kind = "entry" THEN "main" ELSE "chunk", id |-> NoName]

\* the chunk lists of a build: at least one entry chunk
ChunkLists ==
    {[i \in 1..Len(ks) |-> Chunk(ks[i])] :
        ks \in {s \in SeqsUpTo(ChunkKinds, MaxChunks) : \E i \in 1..Len(s) : s[i] = "entry"}}

\* an asset of graph.assetsById, with or without its source
\* setBy: the call in whose generateBundle hook the source was set, else 0
Asset(hasSource) ==
    [name |-> "asset", source |-> hasSource, fileName |-> NoName, setBy |-> 0]

AssetLists ==
    {[i \in 1..Len(ss) |-> Asset(ss[i])] : ss \in SeqsUpTo(BOOLEAN, MaxAssets)}

\* an output bundle: its entries in the order their keys were inserted
Keys(bundle) == {bundle[i].key : i \in 1..Len(bundle)}

KeyIndex(bundle, key) ==
    IF key \in Keys(bundle)
      THEN CHOOSE i \in 1..Len(bundle) : bundle[i].key = key
      ELSE 0

\* outputBundle[key] = entry, for the entry's key
Put(bundle, entry) ==
    IF KeyIndex(bundle, entry.key) = 0
      THEN Append(bundle, entry)
      ELSE [bundle EXCEPT ![KeyIndex(bundle, entry.key)] = entry]

\* a variant whose fileName is taken from the chunk's name
ChunkEntryNamedByChunk(chunk, i) ==
    [key |-> chunk.id, fileName |-> Name(chunk.name, "", 0), isAsset |-> FALSE,
     isEntry |-> chunk.kind = "entry", chunk |-> i, code |-> 0, map |-> FALSE]

\* outputBundle[chunk.id] = { fileName: chunk.id, ... }
\* code: 0 while undefined, else the generate call whose render set it
ChunkEntry(chunk, i) ==
    [key |-> chunk.id, fileName |-> chunk.id, isAsset |-> FALSE, isEntry |-> chunk.kind = "entry",
     chunk |-> i, code |-> 0, map |-> FALSE]

AssetEntry(fileName) ==
    [key |-> fileName, fileName |-> fileName, isAsset |-> TRUE, isEntry |-> FALSE,
     chunk |-> 0, code |-> 0, map |-> FALSE]

\* the first name for (stem, pat) that is not in used
FirstFree(stem, pat, used) ==
    Name(stem, pat,
         CHOOSE n \in 0..Cardinality(used) :
             /\ Name(stem, pat, n) \notin used
             /\ \A m \in 0..(n - 1) : Name(stem, pat, m) \in used)

\* finaliseAsset(asset, outputBundle, assetFileNames), for an asset with a
\* source: a file name unused in the bundle, set on the asset and inserted
finaliseAsset(asset, bundle) ==
    LET fileName == FirstFree(asset.name, "asset", Keys(bundle))
    IN  [asset |-> [asset EXCEPT !.fileName = fileName],
         bundle |-> Put(bundle, AssetEntry(fileName))]

\* graph.finaliseAssets(assetFileNames): a new bundle holding every asset
\* that has a source
RECURSIVE FinaliseFrom(_, _, _)
FinaliseFrom(assets, i, bundle) ==
    IF i > Len(assets) THEN [assets |-> assets, bundle |-> bundle]
    ELSE IF assets[i].source
      THEN LET f == finaliseAsset(assets[i], bundle)
           IN  FinaliseFrom([assets EXCEPT ![i] = f.asset], i + 1, f.bundle)
      ELSE FinaliseFrom(assets, i + 1, bundle)

graphFinaliseAssets(assets) == FinaliseFrom(assets, 1, <<>>)

\* a variant that leaves the assets without a source as they are
FinaliseRemainingSkips(assets, i, bundle) ==
    [ok |-> TRUE, assets |-> assets, bundle |-> bundle]

\* assets.forEach(asset => { if (asset.fileName === undefined) finaliseAsset(...) }):
\* fails on the first such asset without a source
RECURSIVE FinaliseRemaining(_, _, _)
FinaliseRemaining(assets, i, bundle) ==
    IF i > Len(assets) THEN [ok |-> TRUE, assets |-> assets, bundle |-> bundle]
    ELSE IF assets[i].fileName # NoName THEN FinaliseRemaining(assets, i + 1, bundle)
    ELSE IF ~assets[i].source THEN [ok |-> FALSE, assets |-> assets, bundle |-> bundle]
    ELSE LET f == finaliseAsset(assets[i], bundle)
         IN  FinaliseRemaining([assets EXCEPT ![i] = f.asset], i + 1, f.bundle)

\* const assets = new Map(graph.assetsById), with the assets emitted into it:
\* the loop goes over the assets of the graph, then over the emitted ones
FinaliseSnapshot(assets, emitted, bundle) ==
    LET a == FinaliseRemaining(assets, 1, bundle)
        e == FinaliseRemaining(emitted, 1, a.bundle)
    IN  IF a.ok
          THEN [ok |-> e.ok, assets |-> a.assets, emitted |-> e.assets, bundle |-> e.bundle]
          ELSE [ok |-> FALSE, assets |-> a.assets, emitted |-> emitted, bundle |-> a.bundle]

\* the asset that call g emits
EmittedName(g) == <<"emitted1", "emitted2", "emitted3", "emitted4">>[g]

EmittedAsset(g, hasSource) ==
    [name |-> EmittedName(g), source |-> hasSource, fileName |-> NoName, setBy |-> g]

\* a variant in which the emission handles work on graph.assetsById itself
EmitIntoGraphMap(emitted, assets, asset) ==
    [emitted |-> emitted, assets |-> Append(assets, asset)]

\* the emission handles work on the copy: new Map(graph.assetsById)
EmitIntoSnapshot(emitted, assets, asset) ==
    [emitted |-> Append(emitted, asset), assets |-> assets]

\* chunk.generateId(pattern, patternName, addons, outputOptions, usedIds)
generateId(chunk, pat, usedIds) == FirstFree(chunk.name, pat, usedIds)

\* chunk.generateIdPreserveModules(inputBase): the path of the chunk's module
generateIdPreserveModules(chunk, i) == Name(chunk.name, "preserve", i)

\* pattern = outputOptions.entryFileNames || '[name].js' for an entry facade,
\* outputOptions.chunkFileNames || '[name]-[hash].js' for another chunk
Pattern(chunk, outputOptions) ==
    IF chunk.kind = "entry"
      THEN IF outputOptions.entryFileNames # ""
             THEN outputOptions.entryFileNames ELSE "[name].js"
      ELSE IF outputOptions.chunkFileNames # ""
             THEN outputOptions.chunkFileNames ELSE "[name]-[hash].js"

\* a variant of the naming loop that does not insert the ids into usedIds
RECURSIVE NameChunksForgetsUsedIds(_, _, _, _, _, _)
NameChunksForgetsUsedIds(chs, i, upto, usedIds, outputOptions, inputOptions) ==
    IF i > upto THEN chs
    ELSE IF outputOptions.file # ""
      THEN NameChunksForgetsUsedIds([chs EXCEPT ![i].id = Name(outputOptions.file, "file", 0)],
                                    i + 1, upto, usedIds, outputOptions, inputOptions)
    ELSE IF inputOptions.preserveModules
      THEN NameChunksForgetsUsedIds([chs EXCEPT ![i].id = generateIdPreserveModules(chs[i], i)],
                                    i + 1, upto, usedIds, outputOptions, inputOptions)
    ELSE LET pat == Pattern(chs[i], outputOptions)
             id == generateId(chs[i], pat, usedIds)
         IN  NameChunksForgetsUsedIds([chs EXCEPT ![i].id = id], i + 1, upto, usedIds,
                                      outputOptions, inputOptions)

\* a variant of the naming loop in which the ids that the chunks already
\* have count as used
RECURSIVE NameChunksAmongOldIds(_, _, _, _, _, _)
NameChunksAmongOldIds(chs, i, upto, usedIds, outputOptions, inputOptions) ==
    IF i > upto THEN chs
    ELSE IF outputOptions.file # ""
      THEN NameChunksAmongOldIds([chs EXCEPT ![i].id = Name(outputOptions.file, "file", 0)],
                                 i + 1, upto, usedIds, outputOptions, inputOptions)
    ELSE IF inputOptions.preserveModules
      THEN NameChunksAmongOldIds([chs EXCEPT ![i].id = generateIdPreserveModules(chs[i], i)],
                                 i + 1, upto, usedIds, outputOptions, inputOptions)
    ELSE LET pat == Pattern(chs[i], outputOptions)
             old == {chs[j].id : j \in 1..Len(chs)} \ {NoName}
             id == generateId(chs[i], pat, usedIds \cup old)
         IN  NameChunksAmongOldIds([chs EXCEPT ![i].id = id], i + 1, upto,
                                   usedIds \cup {id}, outputOptions, inputOptions)

\* the naming loop over chunks i..upto
RECURSIVE NameChunks(_, _, _, _, _, _)
NameChunks(chs, i, upto, usedIds, outputOptions, inputOptions) ==
    IF i > upto THEN chs
    ELSE IF outputOptions.file # ""
      THEN NameChunks([chs EXCEPT ![i].id = Name(outputOptions.file, "file", 0)],
                      i + 1, upto, usedIds, outputOptions, inputOptions)
    ELSE IF inputOptions.preserveModules
      THEN NameChunks([chs EXCEPT ![i].id = generateIdPreserveModules(chs[i], i)],
                      i + 1, upto, usedIds, outputOptions, inputOptions)
    ELSE LET pat == Pattern(chs[i], outputOptions)
             id == generateId(chs[i], pat, usedIds)
         IN  NameChunks([chs EXCEPT ![i].id = id], i + 1, upto, usedIds \cup {id},
                        outputOptions, inputOptions)

\* the loop that assigns the chunks to outputBundle
RECURSIVE AssignChunks(_, _, _)
AssignChunks(chs, i, bundle) ==
    IF i > Len(chs) THEN bundle
    ELSE AssignChunks(chs, i + 1, Put(bundle, ChunkEntry(chs[i], i)))

\* optimizeChunks(chunks, outputOptions, chunkGroupingSize, inputBase): the
\* chunk list is changed in place; here a trailing secondary chunk is merged
\* into the chunks before it
optimizeChunks(chs) ==
    IF Len(chs) > 1 /\ chs[Len(chs)].kind = "secondary"
      THEN SubSeq(chs, 1, Len(chs) - 1)
      ELSE chs

----------------------------------------------------------------------------
(* generate and write: one record per call *)

ChunkIds == 1..MaxChunks

\* api       generate | write
\* settle    none | threw (at the call) | resolved | rejected;  value: the error
\* finaliseAssets                 none | ok | failed (graph.finaliseAssets)
\* renderStart, addons, renderError, generateBundle
\*                                none | pending | ok | failed
\* block     the callback that pre-renders, optimizes, names and starts the
\*           renders: none | ok | prerender | optimize | naming (where it threw)
\* key[i], render[i], ongen[i]    per chunk: the bundle key of its entry, its
\*                                render and its ongenerate dispatch
\* chainErr  the error the .catch of the render chain received
\* finalise  the asset finalisation after generateBundle: none | ok | failed
\* validated the multi-chunk checks of write: none | ok | failed
\* files     per bundle entry: the writes and the onwrite dispatch of write
IdleGen ==
    [called |-> FALSE, api |-> "generate", raw |-> MissingRawOutput,
     outputOptions |-> NoOutput, settle |-> "none", value |-> NoError,
     finaliseAssets |-> "none", renderStart |-> "none", addons |-> "none",
     block |-> "none",
     key |-> [i \in ChunkIds |-> NoName],
     render |-> [i \in ChunkIds |-> "none"],
     ongen |-> [i \in ChunkIds |-> "none"],
     renderError |-> "none", nRenderError |-> 0, renderErrorArg |-> NoError,
     chainErr |-> NoError,
     generateBundle |-> "none", finalise |-> "none",
     bundle |-> <<>>,
     validated |-> "none", files |-> <<>>, output |-> <<>>,
     emitted |-> <<>>, nEmit |-> 0]

RenderOrigin(i) == <<"render1", "render2", "render3", "render4">>[i]

OngenerateOrigin(i) == <<"ongenerate1", "ongenerate2", "ongenerate3", "ongenerate4">>[i]

\* an exception that leaves generate() or write() at the call
ThrowAtCall(r, err) == [r EXCEPT !.settle = "threw", !.value = err]

\* error({ code: 'MISSING_OPTION', ... }) of write
MissingOutputTarget ==
    Err("MISSING_OPTION", "You must specify output.file or output.dir for the build.")

\* a variant without the .catch: the rejection goes to the caller as it is
ChainRejectedNoCatch(r, err) ==
    IF r.chainErr # NoError THEN r
    ELSE [r EXCEPT !.chainErr = err, !.settle = "rejected", !.value = err]

\* .catch(error => hookParallel('renderError', [error]).then(() => { throw error; })):
\* the first rejection of the render chain reaches it, later ones are dropped
ChainRejected(r, err) ==
    IF r.chainErr # NoError THEN r
    ELSE [r EXCEPT !.renderError = "pending", !.nRenderError = @ + 1,
                   !.renderErrorArg = err, !.chainErr = err]

\* the synchronous part of generate(), after a successful normalization and
\* graph.finaliseAssets: the renderStart dispatch
GenerateEntered(r, outputOptions, bundle) ==
    [r EXCEPT !.outputOptions = outputOptions, !.finaliseAssets = "ok",
              !.bundle = bundle, !.renderStart = "pending"]

\* a variant in which the error of normalizeOutputOptions rejects the promise
NormalizationFailedRejects(r, err) == [r EXCEPT !.settle = "rejected", !.value = err]

\* normalizeOutputOptions threw: generate() throws at the call
NormalizationFailed(r, err) == ThrowAtCall(r, err)

\* if (!optimized && inputOptions.optimizeChunks)
ShouldOptimize(isOptimized, inputOptions) == ~isOptimized /\ inputOptions.optimizeChunks

\* the callback after createAddons, when nothing in it throws: the chunks
\* chs are named, assigned to the bundle, and their renders started
BlockCompleted(r, chs) ==
    [r EXCEPT !.addons = "ok", !.block = "ok",
              !.bundle = AssignChunks(chs, 1, r.bundle),
              !.key = [i \in ChunkIds |-> IF i <= Len(chs) THEN chs[i].id ELSE NoName],
              !.render = [i \in ChunkIds |-> IF i <= Len(chs) THEN "pending" ELSE "none"]]

\* the same callback when the step named where throws
BlockThrew(r, where) ==
    ChainRejected([r EXCEPT !.addons = "ok", !.block = where], PluginError(where))

\* a variant that looks the entry up again when the render is fulfilled, under
\* the id the chunk has by then
OnRenderFulfilledUnderCurrentId(r, g, i) ==
    LET k == IF i <= Len(chunks) THEN KeyIndex(r.bundle, chunks[i].id) ELSE 0
    IN  IF k = 0 THEN [r EXCEPT !.render[i] = "ok", !.ongen[i] = "pending"]
        ELSE [r EXCEPT !.render[i] = "ok", !.ongen[i] = "pending",
                       !.bundle[k].code = g,
                       !.bundle[k].map = (r.outputOptions.sourcemap # "")]

\* const outputChunk = outputBundle[chunk.id], taken when the render is started;
\* rendered => { outputChunk.code = rendered.code; outputChunk.map = rendered.map;
\*               return hookParallel('ongenerate', ...) }
OnRenderFulfilled(r, g, i) ==
    [r EXCEPT !.render[i] = "ok", !.ongen[i] = "pending",
              !.bundle[KeyIndex(r.bundle, r.key[i])].code = g,
              !.bundle[KeyIndex(r.bundle, r.key[i])].map = (r.outputOptions.sourcemap # "")]

OnRenderRejected(r, i) ==
    ChainRejected([r EXCEPT !.render[i] = "failed"], PluginError(RenderOrigin(i)))

\* the chunks whose render was started
Rendered(r) == {i \in ChunkIds : r.render[i] # "none"}

\* a variant of Promise.all that is fulfilled by its first element
OnOngenerateFulfilledFirstWins(r, i) ==
    IF r.chainErr = NoError /\ r.generateBundle = "none"
      THEN [r EXCEPT !.ongen[i] = "ok", !.generateBundle = "pending"]
      ELSE [r EXCEPT !.ongen[i] = "ok"]

\* an ongenerate dispatch fulfilled; when it was the last one, Promise.all
\* is fulfilled and generateBundle is dispatched
OnOngenerateFulfilled(r, i) ==
    IF \A j \in Rendered(r) \ {i} : r.ongen[j] = "ok"
      THEN [r EXCEPT !.ongen[i] = "ok", !.generateBundle = "pending"]
      ELSE [r EXCEPT !.ongen[i] = "ok"]

OnOngenerateRejected(r, i) ==
    ChainRejected([r EXCEPT !.ongen[i] = "failed"], PluginError(OngenerateOrigin(i)))

\* hookParallel('renderError', [error]).then(() => { throw error; })
OnRenderErrorFulfilled(r) ==
    [r EXCEPT !.renderError = "ok", !.settle = "rejected", !.value = r.renderErrorArg]

\* the renderError dispatch rejected: its error replaces the original
OnRenderErrorRejected(r, err) ==
    [r EXCEPT !.renderError = "failed", !.settle = "rejected", !.value = err]

\* what a failing renderError hook can throw: its own error, or the one it was given
RenderErrorErrors(r) == {PluginError("renderError"), r.renderErrorArg}

\* the entries of a bundle that are chunks
ChunkEntries(bundle) == {j \in 1..Len(bundle) : ~bundle[j].isAsset}

\* the checks of write on the generated bundle: the error() call reached, or NoError
ValidateWrite(r) ==
    IF Cardinality(ChunkEntries(r.bundle)) > 1 /\ r.raw.top.sourcemapFile # ""
      THEN InvalidOption("\"sourcemapFile\" is only supported for single-file builds.")
    ELSE IF Cardinality(ChunkEntries(r.bundle)) > 1 /\ r.raw.top.file # ""
      THEN InvalidOption("When building multiple chunks, the output.dir option must be used, not output.file.")
    ELSE NoError

\* paths: dirname(file), a directory as it is given, resolve(base, fileName)
\* and the path with .map appended
dirname(file) == [parentOf |-> TRUE, path |-> file]

Directory(dir) == [parentOf |-> FALSE, path |-> dir]

resolve(base, fileName) == [base |-> base, fileName |-> fileName, suffix |-> ""]

WithMapSuffix(filename) == [filename EXCEPT !.suffix = ".map"]

\* no file
NoPath == resolve(Directory(""), NoName)

\* const filename = resolve(outputOptions.dir || dirname(outputOptions.file), outputFile.fileName)
Filename(entry, outputOptions) ==
    resolve(IF outputOptions.dir # "" THEN Directory(outputOptions.dir)
                                      ELSE dirname(outputOptions.file),
            entry.fileName)

\* a variant that writes a map file for an inline source map too
StartWriteInlineMapFile(entry, outputOptions) ==
    [code |-> "pending",
     filename |-> Filename(entry, outputOptions),
     map |-> IF ~entry.isAsset /\ outputOptions.sourcemap # "" /\ entry.map
               THEN "pending" ELSE "none",
     mapFilename |-> IF ~entry.isAsset /\ outputOptions.sourcemap # "" /\ entry.map
                       THEN WithMapSuffix(Filename(entry, outputOptions)) ELSE NoPath,
     onwrite |-> "none", state |-> "writing"]

\* writeOutputFile, up to its writeFile calls: a file for the entry, and one
\* for the map of a chunk when the source map is not inline
StartWrite(entry, outputOptions) ==
    [code |-> "pending",
     filename |-> Filename(entry, outputOptions),
     map |-> IF ~entry.isAsset /\ outputOptions.sourcemap # "" /\ entry.map
                 /\ outputOptions.sourcemap # "inline"
               THEN "pending" ELSE "none",
     mapFilename |-> IF ~entry.isAsset /\ outputOptions.sourcemap # "" /\ entry.map
                         /\ outputOptions.sourcemap # "inline"
                       THEN WithMapSuffix(Filename(entry, outputOptions)) ELSE NoPath,
     onwrite |-> "none", state |-> "writing"]

\* a variant of write that skips the checks on the bundle
WriteThenUnchecked(r) ==
    [r EXCEPT !.validated = "ok",
              !.files = [j \in 1..Len(r.bundle) |-> StartWrite(r.bundle[j], r.raw.top)]]

\* generate(outputOptions, true).then(bundle => ...) of write
WriteThen(r) ==
    IF ValidateWrite(r) # NoError
      THEN [r EXCEPT !.validated = "failed", !.settle = "rejected",
                     !.value = ValidateWrite(r)]
      ELSE [r EXCEPT !.validated = "ok",
                     !.files = [j \in 1..Len(r.bundle) |-> StartWrite(r.bundle[j], r.raw.top)]]

\* enum SortingFileType
ENTRY_CHUNK == 0

SECONDARY_CHUNK == 1

ASSET == 2

getSortingFileType(file) ==
    IF file.isAsset THEN ASSET
    ELSE IF file.isEntry THEN ENTRY_CHUNK
    ELSE SECONDARY_CHUNK

\* the comparison function given to sort
CompareFiles(outputFileA, outputFileB) ==
    IF getSortingFileType(outputFileA) = getSortingFileType(outputFileB) THEN 0
    ELSE IF getSortingFileType(outputFileA) < getSortingFileType(outputFileB) THEN -1
    ELSE 1

\* Array.prototype.sort with a comparison function: x is placed after every
\* element that does not compare greater than it (the sort is stable)
InsertSorted(sorted, x) ==
    LET before == {i \in 1..Len(sorted) : CompareFiles(sorted[i], x) <= 0}
        k == Cardinality({i \in 1..Len(sorted) :
                            \A j \in 1..i : j \in before})
    IN  SubSeq(sorted, 1, k) \o <<x>> \o SubSeq(sorted, k + 1, Len(sorted))

RECURSIVE SortFiles(_, _, _)
SortFiles(files, i, sorted) ==
    IF i > Len(files) THEN sorted
    ELSE SortFiles(files, i + 1, InsertSorted(sorted, files[i]))

\* a variant that returns the entries in the order of the bundle's keys
createOutputUnsorted(outputBundle) == outputBundle

\* createOutput: Object.keys(outputBundle).map(...).sort(...)
createOutput(outputBundle) == SortFiles(outputBundle, 1, <<>>)

\* generate resolved with the bundle: generate() is done, write() goes on
\* to write it
Generated(r) ==
    IF r.api = "write" THEN WriteThen(r)
    ELSE [r EXCEPT !.settle = "resolved", !.output = createOutput(r.bundle)]

\* the asset finalisation after generateBundle
OnGenerateBundleFulfilled(r, fin) ==
    IF fin.ok
      THEN Generated([r EXCEPT !.generateBundle = "ok", !.finalise = "ok",
                               !.bundle = fin.bundle, !.emitted = fin.emitted])
      ELSE [r EXCEPT !.generateBundle = "ok", !.finalise = "failed",
                     !.bundle = fin.bundle, !.emitted = fin.emitted,
                     !.settle = "rejected", !.value = PluginError("finaliseAsset")]

\* a variant in which the rejection of generateBundle reaches the .catch
OnGenerateBundleRejectedIsCaught(r, err) ==
    ChainRejected([r EXCEPT !.generateBundle = "failed"], err)

\* the generateBundle dispatch rejected: the chain has no handler after it
OnGenerateBundleRejected(r, err) ==
    [r EXCEPT !.generateBundle = "failed", !.settle = "rejected", !.value = err]

\* Promise.all of the writeOutputFile promises rejects with the first failure
WriteRejected(r, err) ==
    IF r.settle = "none" THEN [r EXCEPT !.settle = "rejected", !.value = err] ELSE r

\* an entry is done; write resolves, through createOutput, with the last one
EntryDone(r, j) ==
    IF \A k \in (1..Len(r.files)) \ {j} : r.files[k].state = "done"
      THEN [r EXCEPT !.files[j].state = "done", !.settle = "resolved",
                     !.output = createOutput(r.bundle)]
      ELSE [r EXCEPT !.files[j].state = "done"]

\* .then(() => !isOutputAsset(outputFile) && hookSeq('onwrite', ...))
AfterWrites(r, j) ==
    IF r.bundle[j].isAsset THEN EntryDone(r, j)
    ELSE [r EXCEPT !.files[j].onwrite = "pending", !.files[j].state = "onwrite"]

\* a variant that does not wait for the map file
AfterCodeWriteIgnoresMap(r, j) == AfterWrites(r, j)

\* .then(() => writeSourceMapPromise), once the entry's file is written
AfterCodeWrite(r, j) ==
    CASE r.files[j].map \in {"none", "ok"} -> AfterWrites(r, j)
      [] r.files[j].map = "pending" -> r
      [] r.files[j].map = "failed" ->
            WriteRejected([r EXCEPT !.files[j].state = "failed"], PluginError("writeMap"))

OnCodeWriteFulfilled(r, j) == AfterCodeWrite([r EXCEPT !.files[j].code = "ok"], j)

OnCodeWriteRejected(r, j) ==
    WriteRejected([r EXCEPT !.files[j].code = "failed", !.files[j].state = "failed"],
                  PluginError("writeFile"))

\* the map file is written: the chain goes on if it was waiting for it
OnMapWriteFulfilled(r, j) ==
    IF r.files[j].code = "ok"
      THEN AfterWrites([r EXCEPT !.files[j].map = "ok"], j)
      ELSE [r EXCEPT !.files[j].map = "ok"]

OnMapWriteRejected(r, j) ==
    IF r.files[j].code = "ok"
      THEN WriteRejected([r EXCEPT !.files[j].map = "failed", !.files[j].state = "failed"],
                         PluginError("writeMap"))
      ELSE [r EXCEPT !.files[j].map = "failed"]

OnOnwriteFulfilled(r, j) == EntryDone([r EXCEPT !.files[j].onwrite = "ok"], j)

OnOnwriteRejected(r, j) ==
    WriteRejected([r EXCEPT !.files[j].onwrite = "failed", !.files[j].state = "failed"],
                  PluginError("onwrite"))

(* the actions *)

\* the inputOptions of the handle: those of the rollup() call that returned it
HandleOptions == rc[1].inputOptions

\* a variant of the test of write that only looks for the options object
WriteTargetMissingOnlyAbsent(raw) == ~raw.present

\* if (!outputOptions || (!outputOptions.dir && !outputOptions.file))
WriteTargetMissing(raw) == ~raw.present \/ (raw.top.dir = "" /\ raw.top.file = "")

\* handle.generate(raw) or handle.write(raw), up to the first suspension
CallHandle(g, apis, raws) ==
    /\ ~gc[g].called
    /\ \E api \in apis, raw \in raws, finaliseThrows \in BOOLEAN :
          LET r == [IdleGen EXCEPT !.called = TRUE, !.api = api, !.raw = raw]
              n == normalizeOutputOptions(HandleOptions, inputOutput, raw, Len(chunks) > 1)
              f == graphFinaliseAssets(assetsById)
          IN  IF api = "write" /\ WriteTargetMissing(raw)
                THEN /\ gc' = [gc EXCEPT ![g] = ThrowAtCall(r, MissingOutputTarget)]
                     /\ UNCHANGED assetsById
              ELSE IF n.error # NoError
                THEN /\ gc' = [gc EXCEPT ![g] = NormalizationFailed(r, n.error)]
                     /\ UNCHANGED assetsById
              ELSE IF finaliseThrows
                THEN /\ gc' = [gc EXCEPT ![g] =
                                  ThrowAtCall([r EXCEPT !.outputOptions = n.outputOptions,
                                                        !.finaliseAssets = "failed"],
                                              PluginError("finaliseAssets"))]
                     /\ UNCHANGED assetsById
              ELSE /\ gc' = [gc EXCEPT ![g] = GenerateEntered(r, n.outputOptions, f.bundle)]
                   /\ assetsById' = f.assets
    /\ UNCHANGED <<rvars, inputOutput, chunks, optimized, nOptimize>>

RenderStartFulfilled(g) ==
    /\ gc[g].renderStart = "pending"
    /\ gc' = [gc EXCEPT ![g] = [@ EXCEPT !.renderStart = "ok", !.addons = "pending"]]
    /\ UNCHANGED <<rvars, inputOutput, chunks, assetsById, optimized, nOptimize>>

RenderStartRejected(g) ==
    /\ gc[g].renderStart = "pending"
    /\ gc' = [gc EXCEPT ![g] =
                 ChainRejected([@ EXCEPT !.renderStart = "failed"], PluginError("renderStart"))]
    /\ UNCHANGED <<rvars, inputOutput, chunks, assetsById, optimized, nOptimize>>

AddonsRejected(g) ==
    /\ gc[g].addons = "pending"
    /\ gc' = [gc EXCEPT ![g] =
                 ChainRejected([@ EXCEPT !.addons = "failed"], PluginError("addons"))]
    /\ UNCHANGED <<rvars, inputOutput, chunks, assetsById, optimized, nOptimize>>

\* createAddons fulfilled, and the pre-render throws
BlockPrerenderThrows(g) ==
    /\ gc[g].addons = "pending"
    /\ gc' = [gc EXCEPT ![g] = BlockThrew(@, "prerender")]
    /\ UNCHANGED <<rvars, inputOutput, chunks, assetsById, optimized, nOptimize>>

\* createAddons fulfilled, the pre-render returns and optimizeChunks throws
BlockOptimizeThrows(g) ==
    /\ gc[g].addons = "pending"
    /\ ShouldOptimize(optimized, HandleOptions)
    /\ nOptimize' = nOptimize + 1
    /\ gc' = [gc EXCEPT ![g] = BlockThrew(@, "optimize")]
    /\ UNCHANGED <<rvars, inputOutput, chunks, assetsById, optimized>>

\* the optimization step of the callback, when optimizeChunks returns
OptimizeStep ==
    IF ShouldOptimize(optimized, HandleOptions)
      THEN /\ optimized' = TRUE
           /\ nOptimize' = nOptimize + 1
      ELSE UNCHANGED <<optimized, nOptimize>>

OptimizedChunks ==
    IF ShouldOptimize(optimized, HandleOptions) THEN optimizeChunks(chunks) ELSE chunks

\* ... and the naming throws at chunk k
BlockNamingThrows(g) ==
    /\ gc[g].addons = "pending"
    /\ OptimizeStep
    /\ \E k \in 1..Len(OptimizedChunks) :
          chunks' = NameChunks(OptimizedChunks, 1, k - 1, {}, gc[g].outputOptions, HandleOptions)
    /\ gc' = [gc EXCEPT ![g] = BlockThrew(@, "naming")]
    /\ UNCHANGED <<rvars, inputOutput, assetsById>>

\* ... and nothing throws: the renders are started
BlockCompletes(g) ==
    /\ gc[g].addons = "pending"
    /\ OptimizeStep
    /\ chunks' = NameChunks(OptimizedChunks, 1, Len(OptimizedChunks), {},
                            gc[g].outputOptions, HandleOptions)
    /\ gc' = [gc EXCEPT ![g] = BlockCompleted(@, chunks')]
    /\ UNCHANGED <<rvars, inputOutput, assetsById>>

RenderFulfilled(g, i) ==
    /\ gc[g].render[i] = "pending"
    /\ gc' = [gc EXCEPT ![g] = OnRenderFulfilled(@, g, i)]
    /\ UNCHANGED <<rvars, inputOutput, chunks, assetsById, optimized, nOptimize>>

RenderRejected(g, i) ==
    /\ gc[g].render[i] = "pending"
    /\ gc' = [gc EXCEPT ![g] = OnRenderRejected(@, i)]
    /\ UNCHANGED <<rvars, inputOutput, chunks, assetsById, optimized, nOptimize>>

OngenerateFulfilled(g, i) ==
    /\ gc[g].ongen[i] = "pending"
    /\ gc' = [gc EXCEPT ![g] = OnOngenerateFulfilled(@, i)]
    /\ UNCHANGED <<rvars, inputOutput, chunks, assetsById, optimized, nOptimize>>

OngenerateRejected(g, i) ==
    /\ gc[g].ongen[i] = "pending"
    /\ gc' = [gc EXCEPT ![g] = OnOngenerateRejected(@, i)]
    /\ UNCHANGED <<rvars, inputOutput, chunks, assetsById, optimized, nOptimize>>

RenderErrorFulfilled(g) ==
    /\ gc[g].renderError = "pending"
    /\ gc' = [gc EXCEPT ![g] = OnRenderErrorFulfilled(@)]
    /\ UNCHANGED <<rvars, inputOutput, chunks, assetsById, optimized, nOptimize>>

RenderErrorRejected(g) ==
    /\ gc[g].renderError = "pending"
    /\ \E err \in RenderErrorErrors(gc[g]) :
          gc' = [gc EXCEPT ![g] = OnRenderErrorRejected(@, err)]
    /\ UNCHANGED <<rvars, inputOutput, chunks, assetsById, optimized, nOptimize>>

GenerateBundleFulfilled(g) ==
    /\ gc[g].generateBundle = "pending"
    /\ LET fin == FinaliseSnapshot(assetsById, gc[g].emitted, gc[g].bundle)
       IN  /\ gc' = [gc EXCEPT ![g] = OnGenerateBundleFulfilled(@, fin)]
           /\ assetsById' = fin.assets
    /\ UNCHANGED <<rvars, inputOutput, chunks, optimized, nOptimize>>

GenerateBundleRejected(g) ==
    /\ gc[g].generateBundle = "pending"
    /\ gc' = [gc EXCEPT ![g] = OnGenerateBundleRejected(@, PluginError("generateBundle"))]
    /\ UNCHANGED <<rvars, inputOutput, chunks, assetsById, optimized, nOptimize>>

\* a generateBundle hook emits an asset through the handles of its context:
\* with a source it is finalised into the bundle of the call at once
EmitAsset(g, hasSource) ==
    /\ gc[g].generateBundle = "pending"
    /\ gc[g].nEmit < MaxEmit
    /\ LET f == finaliseAsset(EmittedAsset(g, hasSource), gc[g].bundle)
           asset == IF hasSource THEN f.asset ELSE EmittedAsset(g, hasSource)
           e == EmitIntoSnapshot(gc[g].emitted, assetsById, asset)
       IN  /\ gc' = [gc EXCEPT ![g].emitted = e.emitted,
                                ![g].nEmit = @ + 1,
                                ![g].bundle = IF hasSource THEN f.bundle ELSE @]
           /\ assetsById' = e.assets
    /\ UNCHANGED <<rvars, inputOutput, chunks, optimized, nOptimize>>

\* a generateBundle hook sets the source of an asset of the graph that has
\* none: the asset is the object that graph.assetsById holds
SetAssetSource(g, i) ==
    /\ gc[g].generateBundle = "pending"
    /\ i <= Len(assetsById)
    /\ ~assetsById[i].source
    /\ assetsById' = [assetsById EXCEPT ![i].source = TRUE, ![i].setBy = g]
    /\ UNCHANGED <<rvars, inputOutput, chunks, optimized, nOptimize, gc>>

\* ... or of an asset it emitted without one
SetEmittedSource(g, k) ==
    /\ gc[g].generateBundle = "pending"
    /\ k <= Len(gc[g].emitted)
    /\ ~gc[g].emitted[k].source
    /\ gc' = [gc EXCEPT ![g].emitted[k].source = TRUE]
    /\ UNCHANGED <<rvars, inputOutput, chunks, assetsById, optimized, nOptimize>>

GenerateSteps(g) ==
    \/ RenderStartFulfilled(g)
    \/ RenderStartRejected(g)
    \/ AddonsRejected(g)
    \/ BlockPrerenderThrows(g)
    \/ BlockOptimizeThrows(g)
    \/ BlockNamingThrows(g)
    \/ BlockCompletes(g)
    \/ \E i \in ChunkIds :
          \/ RenderFulfilled(g, i)
          \/ RenderRejected(g, i)
          \/ OngenerateFulfilled(g, i)
          \/ OngenerateRejected(g, i)
    \/ RenderErrorFulfilled(g)
    \/ RenderErrorRejected(g)
    \/ GenerateBundleFulfilled(g)
    \/ GenerateBundleRejected(g)

\* the positions of the entries of a bundle
EntryIds == 1..(MaxChunks + MaxAssets)

CodeWriteFulfilled(g, j) ==
    /\ j <= Len(gc[g].files)
    /\ gc[g].files[j].code = "pending"
    /\ gc' = [gc EXCEPT ![g] = OnCodeWriteFulfilled(@, j)]
    /\ UNCHANGED <<rvars, inputOutput, chunks, assetsById, optimized, nOptimize>>

CodeWriteRejected(g, j) ==
    /\ j <= Len(gc[g].files)
    /\ gc[g].files[j].code = "pending"
    /\ gc' = [gc EXCEPT ![g] = OnCodeWriteRejected(@, j)]
    /\ UNCHANGED <<rvars, inputOutput, chunks, assetsById, optimized, nOptimize>>

MapWriteFulfilled(g, j) ==
    /\ j <= Len(gc[g].files)
    /\ gc[g].files[j].map = "pending"
    /\ gc' = [gc EXCEPT ![g] = OnMapWriteFulfilled(@, j)]
    /\ UNCHANGED <<rvars, inputOutput, chunks, assetsById, optimized, nOptimize>>

MapWriteRejected(g, j) ==
    /\ j <= Len(gc[g].files)
    /\ gc[g].files[j].map = "pending"
    /\ gc' = [gc EXCEPT ![g] = OnMapWriteRejected(@, j)]
    /\ UNCHANGED <<rvars, inputOutput, chunks, assetsById, optimized, nOptimize>>

OnwriteFulfilled(g, j) ==
    /\ j <= Len(gc[g].files)
    /\ gc[g].files[j].onwrite = "pending"
    /\ gc' = [gc EXCEPT ![g] = OnOnwriteFulfilled(@, j)]
    /\ UNCHANGED <<rvars, inputOutput, chunks, assetsById, optimized, nOptimize>>

OnwriteRejected(g, j) ==
    /\ j <= Len(gc[g].files)
    /\ gc[g].files[j].onwrite = "pending"
    /\ gc' = [gc EXCEPT ![g] = OnOnwriteRejected(@, j)]
    /\ UNCHANGED <<rvars, inputOutput, chunks, assetsById, optimized, nOptimize>>

WriteSteps(g) ==
    \E j \in EntryIds :
        \/ CodeWriteFulfilled(g, j)
        \/ CodeWriteRejected(g, j)
        \/ MapWriteFulfilled(g, j)
        \/ MapWriteRejected(g, j)
        \/ OnwriteFulfilled(g, j)
        \/ OnwriteRejected(g, j)

----------------------------------------------------------------------------
(* Specifications *)

\* raw configurations for concurrent rollup() calls: none, a valid one, a
\* forbidden combination, a throwing options hook
SmallRawConfigs ==
    {MissingRaw,
     [present |-> TRUE, options |-> DefaultOptions, plugins |-> <<>>],
     [present |-> TRUE, options |-> [DefaultOptions EXCEPT !.preserveModules = TRUE],
      plugins |-> <<"setInline">>],
     [present |-> TRUE, options |-> DefaultOptions, plugins |-> <<"throws">>]}

\* no handle yet
NoHandle ==
    /\ inputOutput = NoOutput
    /\ chunks = <<>>
    /\ assetsById = <<>>
    /\ optimized = FALSE
    /\ nOptimize = 0
    /\ gc = [g \in GenCalls |-> IdleGen]

RollupInit ==
    /\ curWatcher = 0
    /\ rc = [c \in Calls |-> IdleCall]
    /\ NoHandle

\* SpecRollup: rollup() calls interleaving at their suspension points
RollupNext == \E c \in Calls : RollupCall(c, SmallRawConfigs) \/ RollupSteps(c)

SpecRollup == RollupInit /\ [][RollupNext]_vars

\* SpecWatch: rollup() calls interleaving with installations of a watcher
WatchNext ==
    \/ \E w \in Watchers : setWatcher(w)
    \/ \E c \in Calls : RollupCall(c, SmallRawConfigs) \/ RollupSteps(c)

SpecWatch == RollupInit /\ [][WatchNext]_vars

\* SpecInput: one rollup() call over every raw input configuration
InputNext == RollupCall(1, RawConfigs) \/ RollupSteps(1)

SpecInput == RollupInit /\ [][InputNext]_vars

\* the rollup() call that delivered a handle for inputOptions
ResolvedCall(inputOptions) ==
    [IdleCall EXCEPT !.settle = "resolved", !.hooked = TRUE,
                     !.inputOptions = inputOptions, !.graph = TRUE,
                     !.buildStart = "ok", !.build = "ok", !.buildEnd = "ok",
                     !.nBuildEnd = 1]

\* the input configurations of the handles: plain, optimizeChunks,
\* preserveModules
HandleConfigs ==
    {DefaultOptions,
     [DefaultOptions EXCEPT !.optimizeChunks = TRUE],
     [DefaultOptions EXCEPT !.preserveModules = TRUE]}

\* a handle just returned by rollup(): let optimized = false
HandleInit ==
    /\ curWatcher = 0
    /\ \E o \in HandleConfigs :
          rc = [c \in Calls |-> IF c = 1 THEN ResolvedCall(o) ELSE IdleCall]
    /\ inputOutput = NoOutput
    /\ chunks \in ChunkLists
    /\ assetsById \in AssetLists
    /\ optimized = FALSE
    /\ nOptimize = 0
    /\ gc = [g \in GenCalls |-> IdleGen]

Es == [NoOutput EXCEPT !.format = "es"]

\* the output options of the generate calls
GenerateOutputs ==
    {MissingRawOutput,
     RawOutput(NoOutput),
     RawOutput([NoOutput EXCEPT !.format = "es6"]),
     RawOutput(Es),
     RawOutput([Es EXCEPT !.file = "x"])}

\* SpecGenerate: generate() calls on one handle, interleaving at their
\* suspension points
GenerateNext ==
    \E g \in GenCalls : CallHandle(g, {"generate"}, GenerateOutputs) \/ GenerateSteps(g)

SpecGenerate == HandleInit /\ [][GenerateNext]_vars

\* the output options of generate calls that differ in how they name the
\* chunks: the default patterns, patterns of the call, a single file
NamingOutputs ==
    {RawOutput([Es EXCEPT !.dir = "dist"]),
     RawOutput([Es EXCEPT !.dir = "dist", !.entryFileNames = "[name].mjs",
                          !.chunkFileNames = "[name].mjs"]),
     RawOutput([Es EXCEPT !.file = "x"])}

\* a handle just returned by rollup(), whose graph holds one asset with a
\* source
NamingInit ==
    /\ curWatcher = 0
    /\ \E o \in HandleConfigs :
          rc = [c \in Calls |-> IF c = 1 THEN ResolvedCall(o) ELSE IdleCall]
    /\ inputOutput = NoOutput
    /\ chunks \in ChunkLists
    /\ assetsById = <<Asset(TRUE)>>
    /\ optimized = FALSE
    /\ nOptimize = 0
    /\ gc = [g \in GenCalls |-> IdleGen]

\* SpecNaming: generate() calls with these options on one handle,
\* interleaving at their suspension points
NamingNext ==
    \E g \in GenCalls : CallHandle(g, {"generate"}, NamingOutputs) \/ GenerateSteps(g)

SpecNaming == NamingInit /\ [][NamingNext]_vars

\* the output options of the write calls
WriteOutputs ==
    {MissingRawOutput,
     RawOutput(Es),
     RawOutput([NoOutput EXCEPT !.dir = "dist"]),
     RawOutput([Es EXCEPT !.dir = "dist"]),
     RawOutput([Es EXCEPT !.file = "x"]),
     RawOutput([Es EXCEPT !.dir = "dist", !.sourcemap = "true"]),
     RawOutput([Es EXCEPT !.dir = "dist", !.sourcemap = "inline"]),
     RawOutput([Es EXCEPT !.dir = "dist", !.sourcemapFile = "x.map"])}

\* SpecWrite: one write() call on a handle
WriteNext ==
    \/ CallHandle(1, {"write"}, WriteOutputs)
    \/ GenerateSteps(1)
    \/ WriteSteps(1)

SpecWrite == HandleInit /\ [][WriteNext]_vars

\* the output options of a call of either kind: those of the write calls,
\* and sourcemapFile inside a nested output object
CallOutputs ==
    WriteOutputs
      \cup {[present |-> TRUE, top |-> [Es EXCEPT !.dir = "dist"],
             nested |-> [NoOutput EXCEPT !.sourcemapFile = "x.map"]],
            RawOutput([Es EXCEPT !.sourcemapFile = "x.map"])}

\* SpecCall: one generate() or write() call on a handle, to its end
CallNext ==
    \/ CallHandle(1, {"generate", "write"}, CallOutputs)
    \/ GenerateSteps(1)
    \/ WriteSteps(1)

SpecCall == HandleInit /\ [][CallNext]_vars

\* SpecAssets: generate() calls whose generateBundle hooks emit assets and
\* set sources, on a handle with one entry chunk; the steps before
\* generateBundle succeed
AssetIds == 1..MaxAssets

EmitIds == 1..MaxEmit

AssetInit ==
    /\ curWatcher = 0
    /\ rc = [c \in Calls |-> IF c = 1 THEN ResolvedCall(DefaultOptions) ELSE IdleCall]
    /\ inputOutput = NoOutput
    /\ chunks = <<Chunk("entry")>>
    /\ assetsById \in AssetLists
    /\ optimized = FALSE
    /\ nOptimize = 0
    /\ gc = [g \in GenCalls |-> IdleGen]

AssetNext ==
    \E g \in GenCalls :
        \/ CallHandle(g, {"generate"}, {RawOutput(Es)})
        \/ RenderStartFulfilled(g)
        \/ BlockCompletes(g)
        \/ RenderFulfilled(g, 1)
        \/ OngenerateFulfilled(g, 1)
        \/ \E hasSource \in BOOLEAN : EmitAsset(g, hasSource)
        \/ \E i \in AssetIds : SetAssetSource(g, i)
        \/ \E k \in EmitIds : SetEmittedSource(g, k)
        \/ GenerateBundleFulfilled(g)
        \/ GenerateBundleRejected(g)

SpecAssets == AssetInit /\ [][AssetNext]_vars

\* SpecRepeat: two generate() calls on one handle, the second made with the
\* output options of the first once the first has resolved
RepeatCall ==
    /\ gc[1].settle = "resolved"
    /\ CallHandle(2, {"generate"}, {gc[1].raw})

RepeatNext ==
    \/ CallHandle(1, {"generate"}, GenerateOutputs)
    \/ GenerateSteps(1)
    \/ RepeatCall
    \/ GenerateSteps(2)

SpecRepeat == HandleInit /\ [][RepeatNext]_vars

\* the input configurations of the handles whose output options are
\* normalized: every kind of entry specifier, with and without preserveModules
OutputHandleConfigs ==
    {[DefaultOptions EXCEPT !.input = i, !.preserveModules = p] :
        i \in {[kind |-> "string", n |-> 1], [kind |-> "array", n |-> 1],
                [kind |-> "array", n |-> 2], [kind |-> "object", n |-> 1],
                [kind |-> "object", n |-> 2]},
        p \in BOOLEAN}

\* inputOptions.output: not set, or setting one option
InputOutputs ==
    {NoOutput,
     [NoOutput EXCEPT !.format = "cjs"],
     [NoOutput EXCEPT !.file = "in.js"],
     [NoOutput EXCEPT !.dir = "in"]}

OutputInit ==
    /\ curWatcher = 0
    /\ \E o \in OutputHandleConfigs :
          rc = [c \in Calls |-> IF c = 1 THEN ResolvedCall(o) ELSE IdleCall]
    /\ inputOutput \in InputOutputs
    /\ chunks \in ChunkLists
    /\ assetsById \in AssetLists
    /\ optimized = FALSE
    /\ nOptimize = 0
    /\ gc = [g \in GenCalls |-> IdleGen]

\* the output options of a call: every combination of format, file, dir and
\* sourcemapFile at the top level, with or without a nested output object
OutputTops ==
    {[NoOutput EXCEPT !.format = f, !.file = x, !.dir = d, !.sourcemapFile = m] :
        f \in {"", "es", "es6", "umd", "iife"}, x \in {"", "x.js"}, d \in {"", "dist"},
        m \in {"", "x.map"}}

OutputNesteds ==
    {NoOutput,
     [NoOutput EXCEPT !.format = "amd"],
     [NoOutput EXCEPT !.file = "n.js"]}

OutputRaws ==
    {MissingRawOutput}
      \cup {[present |-> TRUE, top |-> t, nested |-> n] : t \in OutputTops, n \in OutputNesteds}

\* SpecOutput: the synchronous part of one generate() or write() call, over
\* every handle configuration and every raw output configuration
OutputNext == CallHandle(1, {"generate", "write"}, OutputRaws)

SpecOutput == OutputInit /\ [][OutputNext]_vars

----------------------------------------------------------------------------
(* Properties of rollup() *)

\* C1: in every rollup call whose graph build failed, buildEnd has been
\* dispatched exactly once, with the build error as its argument; the promise
\* is rejected only once that dispatch has settled, and when buildEnd succeeded
\* the rejection value is the very error the build produced.
C1_BuildFailureRunsBuildEnd ==
    \A c \in Calls :
        rc[c].build = "failed" =>
            /\ rc[c].nBuildEnd = 1
            /\ rc[c].buildEndArg = rc[c].buildErr
            /\ rc[c].settle \in {"none", "rejected"}
            /\ rc[c].settle = "rejected" => rc[c].buildEnd \in {"ok", "failed"}
            /\ rc[c].settle = "rejected" /\ rc[c].buildEnd = "ok"
                  => rc[c].value = rc[c].buildErr

C1_Witness ==
    \E c \in Calls :
        /\ rc[c].build = "failed"
        /\ rc[c].buildErr = PluginError("transform")
        /\ rc[c].buildEnd = "ok"
        /\ rc[c].settle = "rejected"
        /\ rc[c].value = PluginError("transform")

\* C8: in every rollup call past Graph construction, graph.build has started
\* only if buildStart succeeded; buildEnd is dispatched at most once, only
\* when buildStart has settled and the build is not running, and exactly once
\* by the time the promise settles; the handle is delivered only after
\* buildEnd succeeded.
C8_BuildPhaseOrder ==
    \A c \in Calls :
        rc[c].graph =>
            /\ rc[c].buildStart # "none"
            /\ rc[c].build # "none" => rc[c].buildStart = "ok"
            /\ rc[c].nBuildEnd <= 1
            /\ (rc[c].buildEnd = "none") = (rc[c].nBuildEnd = 0)
            /\ rc[c].buildEnd # "none" =>
                  \/ rc[c].buildStart = "failed" /\ rc[c].build = "none"
                  \/ rc[c].buildStart = "ok" /\ rc[c].build \in {"ok", "failed"}
            /\ rc[c].settle # "none" => rc[c].nBuildEnd = 1
            /\ rc[c].settle = "resolved" => rc[c].buildEnd = "ok"

C8_Witness ==
    \E c \in Calls :
        /\ rc[c].graph
        /\ rc[c].buildStart = "ok"
        /\ rc[c].build = "ok"
        /\ rc[c].buildEnd = "ok"
        /\ rc[c].nBuildEnd = 1
        /\ rc[c].settle = "resolved"

\* the errors input normalization and Graph construction end with, given what
\* the call had computed when it failed
SyncErrorsOf(r) ==
    IF r.hooked
      THEN IF CheckInputOptions(r.inputOptions) # NoError
             THEN {CheckInputOptions(r.inputOptions)}
             ELSE {PluginError("Graph")}
      ELSE {PlainError("You must supply an options object to rollup"),
            PluginError("options")}

\* C9: rollup never throws at the call; a call that failed in input
\* normalization or in Graph construction returned a promise rejected with
\* that error, and dispatched neither buildStart nor buildEnd nor called
\* graph.build.
C9_SyncFailureRejects ==
    \A c \in Calls :
        /\ rc[c].settle # "threw"
        /\ rc[c].settle # "none" /\ ~rc[c].graph =>
              /\ rc[c].settle = "rejected"
              /\ rc[c].value \in SyncErrorsOf(rc[c])
              /\ rc[c].buildStart = "none"
              /\ rc[c].build = "none"
              /\ rc[c].buildEnd = "none"
              /\ rc[c].nBuildEnd = 0

C9_Witness ==
    \E c, d \in Calls :
        /\ rc[c].settle = "rejected" /\ ~rc[c].graph
        /\ rc[c].value = PlainError("You must supply an options object to rollup")
        /\ rc[d].settle = "rejected" /\ ~rc[d].graph
        /\ rc[d].value = PluginError("Graph")

\* the invariants of an input configuration as the claim states them
ViolatesExactlyOneEntry(o) ==
    \/ o.inlineDynamicImports
         /\ (o.manualChunks \/ o.optimizeChunks \/ o.input.n # 1)
    \/ o.preserveModules
         /\ (o.inlineDynamicImports \/ o.manualChunks \/ o.optimizeChunks)

\* the same with "more than one entry" in place of "not exactly one entry"
ViolatesMultipleEntries(o) ==
    \/ o.inlineDynamicImports
         /\ (o.manualChunks \/ o.optimizeChunks \/ o.input.n > 1)
    \/ o.preserveModules
         /\ (o.inlineDynamicImports \/ o.manualChunks \/ o.optimizeChunks)

\* C10 as claimed: a configuration that, after the options hooks, combines
\* inlineDynamicImports with manualChunks, optimizeChunks or an entry
\* specifier of other than exactly one entry, or preserveModules with
\* inlineDynamicImports, manualChunks or optimizeChunks, is rejected with
\* INVALID_OPTION, and no handle is built from such a configuration.
C10_Claimed ==
    \A c \in Calls :
        rc[c].hooked =>
            /\ ViolatesExactlyOneEntry(rc[c].inputOptions) =>
                  /\ rc[c].settle = "rejected"
                  /\ rc[c].value.code = "INVALID_OPTION"
                  /\ ~rc[c].graph
            /\ rc[c].settle = "resolved" => ~ViolatesExactlyOneEntry(rc[c].inputOptions)

\* C10: the same for an entry specifier of more than one entry: a list or a
\* named map without entries passes input normalization.
C10_InvalidCombinationsRejected ==
    \A c \in Calls :
        rc[c].hooked =>
            /\ ViolatesMultipleEntries(rc[c].inputOptions) =>
                  /\ rc[c].settle = "rejected"
                  /\ rc[c].value.code = "INVALID_OPTION"
                  /\ ~rc[c].graph
            /\ rc[c].settle = "resolved" => ~ViolatesMultipleEntries(rc[c].inputOptions)

C10_Witness ==
    /\ rc[1].hooked
    /\ rc[1].inputOptions.preserveModules
    /\ rc[1].inputOptions.manualChunks
    /\ ~rc[1].inputOptions.inlineDynamicImports
    /\ rc[1].settle = "rejected"
    /\ rc[1].value = InvalidOption("preserveModules does not support the manualChunks option.")

----------------------------------------------------------------------------
(* Properties of generate *)

\* the errors of the steps of the render chain (renderStart to the
\* ongenerate dispatches) that have failed in a call
FailedStepErrors(r) ==
    (IF r.renderStart = "failed" THEN {PluginError("renderStart")} ELSE {})
      \cup (IF r.addons = "failed" THEN {PluginError("addons")} ELSE {})
      \cup (IF r.block \in {"prerender", "optimize", "naming"}
              THEN {PluginError(r.block)} ELSE {})
      \cup {PluginError(RenderOrigin(i)) : i \in {j \in ChunkIds : r.render[j] = "failed"}}
      \cup {PluginError(OngenerateOrigin(i)) : i \in {j \in ChunkIds : r.ongen[j] = "failed"}}

\* the errors of everything that has failed in a call before generateBundle
FailuresBeforeGenerateBundle(r) ==
    FailedStepErrors(r) \cup (IF r.settle = "threw" THEN {r.value} ELSE {})

\* C2 as claimed: whatever fails in a generate call before generateBundle,
\* output normalization and graph.finaliseAssets included, renderError is
\* invoked exactly once, with that error.
C2_Claimed ==
    \A g \in GenCalls :
        \A e \in FailuresBeforeGenerateBundle(gc[g]) :
            gc[g].nRenderError = 1 /\ gc[g].renderErrorArg = e

\* C2: renderError is dispatched at most once per call; once a step from
\* renderStart to the ongenerate dispatches has failed it has been dispatched
\* exactly once, with the error of the step that failed first (the error of
\* the failed step when only one failed); a call that failed in output
\* normalization or in graph.finaliseAssets threw at the call and dispatched
\* neither renderStart nor renderError.
C2_RenderErrorOnChainFailure ==
    \A g \in GenCalls :
        /\ gc[g].nRenderError <= 1
        /\ FailedStepErrors(gc[g]) # {} =>
              /\ gc[g].nRenderError = 1
              /\ gc[g].renderErrorArg \in FailedStepErrors(gc[g])
              /\ gc[g].renderErrorArg = gc[g].chainErr
        /\ gc[g].nRenderError = 1 => gc[g].renderErrorArg \in FailedStepErrors(gc[g])
        /\ gc[g].settle = "threw" =>
              /\ gc[g].nRenderError = 0
              /\ gc[g].renderStart = "none"

C2_Witness ==
    \E g \in GenCalls :
        /\ gc[g].render[1] = "ok"
        /\ gc[g].render[2] = "failed"
        /\ FailedStepErrors(gc[g]) = {PluginError("render2")}
        /\ gc[g].nRenderError = 1
        /\ gc[g].renderErrorArg = PluginError("render2")
        /\ gc[g].renderError = "ok"
        /\ gc[g].settle = "rejected"

\* C3 as claimed: whenever renderError was dispatched for a call, the call's
\* promise is rejected with the error that was passed to renderError,
\* whatever the renderError hooks did, and generateBundle is never dispatched.
C3_Claimed ==
    \A g \in GenCalls :
        gc[g].nRenderError > 0 =>
            /\ gc[g].settle # "resolved"
            /\ gc[g].settle = "rejected" => gc[g].value = gc[g].renderErrorArg
            /\ gc[g].generateBundle = "none"

\* C4 as claimed: the chunk post-optimizer is invoked at most once during
\* the lifetime of the handle.
C4_Claimed == nOptimize <= 1

\* C5: in every generate call the pre-render and the renders start only
\* after renderStart succeeded; generateBundle is dispatched only when the
\* render and the ongenerate dispatch of every chunk have succeeded; the
\* call resolves only after generateBundle and the asset finalisation that
\* follows it succeeded.
C5_GeneratePhaseOrder ==
    \A g \in GenCalls :
        /\ gc[g].block # "none" => gc[g].renderStart = "ok" /\ gc[g].addons = "ok"
        /\ \A i \in ChunkIds :
              /\ gc[g].render[i] # "none" => gc[g].renderStart = "ok" /\ gc[g].block = "ok"
              /\ gc[g].ongen[i] # "none" => gc[g].render[i] = "ok"
        /\ gc[g].generateBundle # "none" =>
              \A i \in 1..Len(chunks) : gc[g].render[i] = "ok" /\ gc[g].ongen[i] = "ok"
        /\ gc[g].finalise # "none" => gc[g].generateBundle = "ok"
        /\ gc[g].settle = "resolved" =>
              gc[g].generateBundle = "ok" /\ gc[g].finalise = "ok"

C5_Witness ==
    \E g \in GenCalls :
        /\ Len(chunks) = 2
        /\ \A i \in 1..2 : gc[g].render[i] = "ok" /\ gc[g].ongen[i] = "ok"
        /\ gc[g].generateBundle = "ok"
        /\ gc[g].finalise = "ok"
        /\ gc[g].settle = "resolved"

----------------------------------------------------------------------------
(* Properties of write *)

\* the write calls that have started writing a file
Writing(r) == Len(r.files) > 0

\* C6: a write call starts writing files only after generateBundle and the
\* asset finalisation succeeded and the checks on the bundle passed; a call
\* whose generate or whose checks failed has written nothing.
C6_WriteAfterGenerate ==
    \A g \in GenCalls :
        /\ Writing(gc[g]) =>
              /\ gc[g].generateBundle = "ok"
              /\ gc[g].finalise = "ok"
              /\ gc[g].validated = "ok"
              /\ ValidateWrite(gc[g]) = NoError
        /\ \/ gc[g].settle = "threw"
           \/ gc[g].chainErr # NoError
           \/ gc[g].generateBundle = "failed"
           \/ gc[g].finalise = "failed"
           \/ gc[g].validated = "failed"
           \/ ValidateWrite(gc[g]) # NoError
           => ~Writing(gc[g])

C6_Witness ==
    \E g \in GenCalls :
        /\ gc[g].api = "write"
        /\ gc[g].finalise = "ok"
        /\ gc[g].validated = "ok"
        /\ Len(gc[g].files) = 3
        /\ \A j \in 1..3 : gc[g].files[j].code = "ok"

\* C7: onwrite is dispatched for a chunk entry only after its file, and its
\* map file when the source map is external, have been written; never for an
\* asset entry; and write resolves only after every entry is written and
\* every onwrite dispatch has succeeded.
C7_OnwriteAfterWrite ==
    \A g \in GenCalls :
        /\ \A j \in 1..Len(gc[g].files) :
              /\ gc[g].files[j].onwrite # "none" =>
                    /\ ~gc[g].bundle[j].isAsset
                    /\ gc[g].files[j].code = "ok"
                    /\ gc[g].files[j].map \in {"none", "ok"}
                    /\ gc[g].raw.top.sourcemap = "true" /\ gc[g].bundle[j].map
                          => gc[g].files[j].map = "ok"
              /\ gc[g].bundle[j].isAsset => gc[g].files[j].onwrite = "none"
        /\ gc[g].api = "write" /\ gc[g].settle = "resolved" =>
              /\ Len(gc[g].files) = Len(gc[g].bundle)
              /\ \A j \in 1..Len(gc[g].files) :
                    /\ gc[g].files[j].code = "ok"
                    /\ gc[g].files[j].map \in {"none", "ok"}
                    /\ gc[g].bundle[j].isAsset \/ gc[g].files[j].onwrite = "ok"

C7_Witness ==
    \E g \in GenCalls :
        /\ gc[g].api = "write"
        /\ gc[g].settle = "resolved"
        /\ \E j, k \in 1..Len(gc[g].files) :
              /\ gc[g].bundle[j].isAsset
              /\ ~gc[g].bundle[k].isAsset
              /\ gc[g].files[k].map = "ok"
              /\ gc[g].files[k].onwrite = "ok"

----------------------------------------------------------------------------
(* Properties of the output options *)

\* the calls in which normalizeOutputOptions went past checkOutputOptions:
\* a call with an options object that passed the test of write and whose
\* consolidated options have a format other than es6
PastFormatCheck(r) ==
    /\ r.called
    /\ r.raw.present
    /\ r.api = "write" => (r.raw.top.dir # "" \/ r.raw.top.file # "")
    /\ consolidatedOutputOptions(inputOutput, r.raw).format \notin {"", "es6"}

RejectedAsInvalidOption(r) == r.settle = "threw" /\ r.value.code = "INVALID_OPTION"

\* C11: for a call whose output options pass the format check and set
\* file, normalization fails with INVALID_OPTION exactly when dir is also set,
\* or preserveModules is set, or the input is a named-input map, or there is
\* more than one chunk; the first of these, in this order, decides the
\* message; with more than one chunk umd and iife fail as well; file with a
\* single-string input or an input array and one chunk passes.
C11_FileOptionChecks ==
    \A g \in GenCalls :
        PastFormatCheck(gc[g]) =>
            LET r == gc[g]
                o == consolidatedOutputOptions(inputOutput, r.raw)
                io == HandleOptions
                multi == Len(chunks) > 1
            IN  /\ o.file # "" =>
                      (RejectedAsInvalidOption(r) <=>
                          (o.dir # "" \/ io.preserveModules \/ io.input.kind = "object" \/ multi))
                /\ multi /\ o.format \in {"umd", "iife"} => RejectedAsInvalidOption(r)
                /\ o.file = "" /\ ~(multi /\ o.format \in {"umd", "iife"})
                      => ~RejectedAsInvalidOption(r)
                /\ o.file # "" /\ o.dir # "" =>
                      r.value = InvalidOption("You must set either output.file for a single-file build or output.dir when generating multiple chunks.")
                /\ o.file # "" /\ o.dir = "" /\ io.preserveModules =>
                      r.value = InvalidOption("You must set output.dir instead of output.file when using the preserveModules option.")
                /\ o.file # "" /\ o.dir = "" /\ ~io.preserveModules /\ io.input.kind = "object" =>
                      r.value = InvalidOption("You must set output.dir instead of output.file when providing named inputs.")
                /\ o.file # "" /\ o.dir = "" /\ ~io.preserveModules /\ io.input.kind # "object"
                      /\ multi /\ o.format \notin {"umd", "iife"} =>
                      r.value = InvalidOption("You must set output.dir instead of output.file when generating multiple chunks.")
                /\ o.file # "" /\ o.dir = "" /\ ~io.preserveModules
                      /\ io.input.kind \in {"string", "array"} /\ ~multi =>
                      /\ ~RejectedAsInvalidOption(r)
                      /\ r.settle = "threw" => r.finaliseAssets = "failed"

C11_Witness ==
    /\ PastFormatCheck(gc[1])
    /\ gc[1].raw.top.file = "x.js"
    /\ HandleOptions.input.kind = "object"
    /\ Len(chunks) > 1
    /\ ~HandleOptions.preserveModules
    /\ consolidatedOutputOptions(inputOutput, gc[1].raw).dir = ""
    /\ gc[1].value = InvalidOption("You must set output.dir instead of output.file when providing named inputs.")

\* C12 as claimed: on a handle with more than one chunk, a generate or
\* write call whose output options set sourcemapFile never resolves, and
\* writes no file.
C12_Claimed ==
    \A g \in GenCalls :
        /\ gc[g].called
        /\ Len(chunks) > 1
        /\ consolidatedOutputOptions(inputOutput, gc[g].raw).sourcemapFile # ""
        => gc[g].settle # "resolved" /\ gc[g].files = <<>>

\* the write calls made without an options object, or with options that
\* set neither file nor dir
WithoutTarget(r) ==
    r.called /\ r.api = "write" /\ (~r.raw.present \/ (r.raw.top.file = "" /\ r.raw.top.dir = ""))

\* nothing of a generate has happened in a call
NothingStarted(r) ==
    /\ r.finaliseAssets = "none"
    /\ r.renderStart = "none"
    /\ r.renderError = "none"
    /\ r.nRenderError = 0
    /\ r.generateBundle = "none"
    /\ r.finalise = "none"
    /\ r.bundle = <<>>
    /\ r.files = <<>>
    /\ \A i \in ChunkIds : r.key[i] = NoName /\ r.render[i] = "none"

\* C13 as claimed: such a write call returns a promise that is rejected with
\* the MISSING_OPTION error, and nothing of a generate has happened.
C13_Claimed ==
    \A g \in GenCalls :
        WithoutTarget(gc[g]) =>
            /\ gc[g].settle = "rejected"
            /\ gc[g].value = MissingOutputTarget
            /\ NothingStarted(gc[g])

\* C13: a write call without an options object, or whose options set
\* neither file nor dir, throws the MISSING_OPTION error at the call; no hook
\* is dispatched, no asset is finalised, no chunk is named and no file is
\* written.
C13_WriteWithoutTargetThrows ==
    \A g \in GenCalls :
        WithoutTarget(gc[g]) =>
            /\ gc[g].settle = "threw"
            /\ gc[g].value = MissingOutputTarget
            /\ NothingStarted(gc[g])
            /\ \A i \in 1..Len(assetsById) : assetsById[i].fileName = NoName
            /\ \A i \in 1..Len(chunks) : chunks[i].id = NoName

C13_Witness ==
    /\ WithoutTarget(gc[1])
    /\ gc[1].raw.present
    /\ gc[1].raw.top.format = "es"
    /\ Len(assetsById) = 1
    /\ assetsById[1].source
    /\ gc[1].settle = "threw"

\* the generate calls whose output options fail the first checks of
\* normalization: no options object, no format, or the format es6
WithoutFormat(r) ==
    /\ r.called
    /\ r.api = "generate"
    /\ ~r.raw.present \/ consolidatedOutputOptions(inputOutput, r.raw).format \in {"", "es6"}

\* the state of the handle that the calls share
handleState == <<inputOutput, chunks, assetsById, optimized, nOptimize>>

\* C14: a generate call without an options object, without a format, or
\* with the format es6 throws at the call with the error of that check, and
\* nothing of a generate has happened in it; the step in which it throws
\* leaves the handle (chunks, assets, the optimized flag) and the other
\* calls as they were.
C14_GenerateThrowsBeforeAnyEffect ==
    /\ [](\A g \in GenCalls :
            WithoutFormat(gc[g]) =>
                /\ gc[g].settle = "threw"
                /\ gc[g].value =
                      IF ~gc[g].raw.present THEN PlainError("You must supply an options object")
                      ELSE checkOutputOptions(consolidatedOutputOptions(inputOutput, gc[g].raw))
                /\ gc[g].value # NoError
                /\ NothingStarted(gc[g]))
    /\ [][\A g \in GenCalls :
            ~gc[g].called /\ WithoutFormat(gc[g])' =>
                /\ handleState' = handleState
                /\ \A h \in GenCalls \ {g} : gc'[h] = gc[h]]_vars

C14_Witness ==
    \E g, h \in GenCalls :
        /\ WithoutFormat(gc[g])
        /\ gc[g].raw.present
        /\ gc[g].raw.top.format = "es6"
        /\ gc[g].settle = "threw"
        /\ optimized
        /\ gc[h].settle = "resolved"
        /\ Len(gc[h].bundle) = 3

\* the calls that returned from normalizeOutputOptions
Normalized(r) == r.called /\ r.finaliseAssets # "none"

\* what the call site sets: its nested output object over its top level
CallSite(raw) == [k \in OutputKeys |-> IF raw.nested[k] # "" THEN raw.nested[k] ELSE raw.top[k]]

\* C15 as claimed: every option the call site sets has the call-site value
\* in the normalized options; the value of the input configuration's output
\* is used only for the options the call site does not set.
C15_Claimed ==
    \A g \in GenCalls :
        Normalized(gc[g]) =>
            \A k \in OutputKeys :
                gc[g].outputOptions[k] =
                    IF CallSite(gc[g].raw)[k] # "" THEN CallSite(gc[g].raw)[k]
                    ELSE inputOutput[k]

\* C15: every option the input configuration's output sets has that value
\* in the normalized options, whatever the call site sets; the call-site
\* value (of the nested output object, else of the top level) is used only
\* for the options the input configuration's output does not set.
C15_InputOutputTakesPrecedence ==
    \A g \in GenCalls :
        Normalized(gc[g]) =>
            \A k \in OutputKeys :
                gc[g].outputOptions[k] =
                    IF inputOutput[k] # "" THEN inputOutput[k]
                    ELSE CallSite(gc[g].raw)[k]

C15_Witness ==
    /\ Normalized(gc[1])
    /\ gc[1].finaliseAssets = "ok"
    /\ gc[1].raw.top.format = "es"
    /\ gc[1].raw.top.dir = "dist"
    /\ inputOutput.format = "cjs"
    /\ gc[1].outputOptions.format = "cjs"
    /\ gc[1].outputOptions.dir = "dist"

----------------------------------------------------------------------------
(* Properties of the returned output *)

\* the position of an entry of the output list in the bundle
BundlePosition(r, i) == KeyIndex(r.bundle, r.output[i].key)

\* C16: the output list that a generate or write call resolves with is a
\* permutation of the bundle's entries, with the entry chunks first, then
\* the secondary chunks, then the assets, and the entries of one class in
\* the order in which they were inserted in the bundle.
C16_OutputOrder ==
    \A g \in GenCalls :
        gc[g].settle = "resolved" =>
            LET r == gc[g]
                class(e) == IF e.isAsset THEN "asset"
                            ELSE IF e.isEntry THEN "entry" ELSE "secondary"
            IN  /\ Len(r.output) = Len(r.bundle)
                /\ \A j \in 1..Len(r.bundle) : \E i \in 1..Len(r.output) : r.output[i] = r.bundle[j]
                /\ \A i \in 1..Len(r.output) : \E j \in 1..Len(r.bundle) : r.output[i] = r.bundle[j]
                /\ \A i, j \in 1..Len(r.output) :
                      i < j =>
                          /\ class(r.output[i]) = "asset" => class(r.output[j]) = "asset"
                          /\ class(r.output[i]) = "secondary" => class(r.output[j]) # "entry"
                          /\ class(r.output[i]) = class(r.output[j])
                                => BundlePosition(r, i) < BundlePosition(r, j)

C16_Witness ==
    \E g \in GenCalls :
        /\ gc[g].settle = "resolved"
        /\ Len(gc[g].bundle) = 3
        /\ gc[g].bundle[1].isAsset
        /\ ~gc[g].bundle[2].isAsset /\ ~gc[g].bundle[2].isEntry
        /\ gc[g].bundle[3].isEntry
        /\ gc[g].output = <<gc[g].bundle[3], gc[g].bundle[2], gc[g].bundle[1]>>

\* C17: in the bundle of a generate call that resolved, the file names of
\* the entries are pairwise distinct, and every entry is stored under the
\* key that is its own fileName.
C17_UniqueFileNames ==
    \A g \in GenCalls :
        gc[g].settle = "resolved" =>
            /\ \A i \in 1..Len(gc[g].bundle) : gc[g].bundle[i].key = gc[g].bundle[i].fileName
            /\ \A i, j \in 1..Len(gc[g].bundle) :
                  i # j => gc[g].bundle[i].fileName # gc[g].bundle[j].fileName

C17_Witness ==
    \E g \in GenCalls :
        /\ gc[g].api = "generate"
        /\ gc[g].settle = "resolved"
        /\ Len(gc[g].bundle) = 3
        /\ gc[g].bundle[2].isEntry /\ gc[g].bundle[3].isEntry
        /\ chunks[1].name = chunks[2].name
        /\ gc[g].bundle[2].fileName # gc[g].bundle[3].fileName

----------------------------------------------------------------------------
(* Properties of the assets *)

\* the asset that call g emitted is in the bundle or among the emitted
\* assets of call h
EmittedVisibleIn(g, h) ==
    \/ \E j \in 1..Len(gc[h].bundle) : gc[h].bundle[j].fileName.stem = EmittedName(g)
    \/ \E k \in 1..Len(gc[h].emitted) : gc[h].emitted[k].name = EmittedName(g)

\* an asset of the graph whose source was set in the generateBundle hook of
\* call g has an entry in the bundle of call h
SetSourceVisibleIn(g, h) ==
    \E i \in 1..Len(assetsById) :
        /\ assetsById[i].setBy = g
        /\ assetsById[i].fileName # NoName
        /\ \E j \in 1..Len(gc[h].bundle) :
              gc[h].bundle[j].isAsset /\ gc[h].bundle[j].fileName = assetsById[i].fileName

\* C18 as claimed: an asset emitted during the generateBundle hook of one
\* call is not in the graph's asset map and not in the bundle of another
\* call, and a source or file name set on an asset during the generateBundle
\* hook of one call does not show in another call.
C18_Claimed ==
    \A g \in GenCalls :
        /\ \A i \in 1..Len(assetsById) : assetsById[i].name # EmittedName(g)
        /\ \A h \in GenCalls \ {g} : ~EmittedVisibleIn(g, h) /\ ~SetSourceVisibleIn(g, h)

\* C18: an asset emitted during the generateBundle hook of one generate
\* call is never added to the graph's asset map and never appears in the
\* bundle, or among the snapshot assets, of another call on the handle.
C18_EmittedAssetsArePerCall ==
    \A g \in GenCalls :
        /\ \A i \in 1..Len(assetsById) : assetsById[i].name # EmittedName(g)
        /\ \A h \in GenCalls \ {g} : ~EmittedVisibleIn(g, h)

C18_Witness ==
    \E g, h \in GenCalls :
        /\ g # h
        /\ gc[g].settle = "resolved"
        /\ EmittedVisibleIn(g, g)
        /\ Len(gc[g].emitted) = 1
        /\ gc[g].emitted[1].fileName # NoName
        /\ gc[h].settle = "resolved"
        /\ gc[h].nEmit = 0

\* the assets of a call's snapshot: those of the graph and those it emitted
SnapshotAssets(r) ==
    {assetsById[i] : i \in 1..Len(assetsById)} \cup {r.emitted[k] : k \in 1..Len(r.emitted)}

\* C19: when a generate call has resolved, every asset of its snapshot has a
\* source and a file name; a call in which, after the generateBundle hooks,
\* an asset of the snapshot is left without a source has been rejected by
\* the finalisation of its assets.
C19_AssetsFinalisedOrRejected ==
    \A g \in GenCalls :
        /\ gc[g].settle = "resolved" =>
              \A a \in SnapshotAssets(gc[g]) : a.source /\ a.fileName # NoName
        /\ gc[g].generateBundle = "ok" /\ (\E a \in SnapshotAssets(gc[g]) : ~a.source) =>
              /\ gc[g].finalise = "failed"
              /\ gc[g].settle = "rejected"
              /\ gc[g].output = <<>>

C19_Witness ==
    \E g \in GenCalls :
        /\ gc[g].settle = "resolved"
        /\ Len(assetsById) = 1
        /\ assetsById[1].setBy = g
        /\ Len(gc[g].emitted) = 1
        /\ Len(gc[g].bundle) = 3
        /\ \E h \in GenCalls : gc[h].finalise = "failed"

----------------------------------------------------------------------------
(* Properties of repeated calls *)

\* what is compared of an entry: its file name, its kind, the chunk it was
\* made from, and whether it holds rendered code and a map
Shape(e) ==
    [fileName |-> e.fileName, isAsset |-> e.isAsset, isEntry |-> e.isEntry,
     chunk |-> e.chunk, rendered |-> e.code # 0, map |-> e.map]

Shapes(bundle) == {Shape(bundle[j]) : j \in 1..Len(bundle)}

----------------------------------------------------------------------------
(* Properties of the chunk names *)

\* the chunks a call has named
NamedChunks(r) == {i \in ChunkIds : r.key[i] # NoName}

\* C23: in every generate call whose naming completed, every chunk of the
\* list has been named, in list order: with output.file by the base name of
\* the file; else with preserveModules by the preserve-modules generator; else
\* by generateId with entryFileNames (default [name].js) for an entry facade
\* and chunkFileNames (default [name]-[hash].js) for another chunk, run with
\* a usedIds that holds exactly the ids of the chunks named before it in this
\* call.  No two chunks of the call have the same id, and the bundle holds
\* one chunk entry per chunk, under the chunk's id.
C23_ChunkNaming ==
    \A g \in GenCalls :
        LET r == gc[g]
            o == r.outputOptions
        IN  r.block = "ok" =>
              /\ NamedChunks(r) = 1..Len(chunks)
              /\ \A i \in NamedChunks(r) :
                    r.key[i] =
                      IF o.file # "" THEN Name(o.file, "file", 0)
                      ELSE IF HandleOptions.preserveModules
                        THEN generateIdPreserveModules(chunks[i], i)
                      ELSE IF chunks[i].kind = "entry"
                        THEN generateId(chunks[i],
                                        IF o.entryFileNames # "" THEN o.entryFileNames
                                                                 ELSE "[name].js",
                                        {r.key[j] : j \in 1..(i - 1)})
                      ELSE generateId(chunks[i],
                                      IF o.chunkFileNames # "" THEN o.chunkFileNames
                                                               ELSE "[name]-[hash].js",
                                      {r.key[j] : j \in 1..(i - 1)})
              /\ \A i, j \in NamedChunks(r) : i # j => r.key[i] # r.key[j]
              /\ \A i \in NamedChunks(r) :
                    /\ KeyIndex(r.bundle, r.key[i]) # 0
                    /\ r.bundle[KeyIndex(r.bundle, r.key[i])].chunk = i
              /\ Cardinality(ChunkEntries(r.bundle)) = Cardinality(NamedChunks(r))

C23_Witness ==
    \E g, h \in GenCalls :
        /\ Len(chunks) = 2
        /\ gc[g].block = "ok"
        /\ gc[g].key[1] = Name("main", "[name].js", 0)
        /\ gc[g].key[2] = Name("main", "[name].js", 1)
        /\ Cardinality(ChunkEntries(gc[g].bundle)) = 2
        /\ gc[h].block = "ok"
        /\ gc[h].key[1] = Name("main", "[name].mjs", 0)
        /\ gc[h].key[2] = Name("main", "[name].mjs", 1)

\* the ids a call assigned to the chunks
AssignedIds(r) == {r.key[i] : i \in NamedChunks(r)}

\* C25: when a generate call has resolved, whatever the other calls on the
\* handle did in between, its bundle has exactly one entry per chunk, stored
\* under the id this call gave the chunk, with the code and the map that this
\* call's render of the chunk produced; it has no entry under an id that
\* only another call assigned.
C25_InterleavedCallsKeepTheirEntries ==
    \A g \in GenCalls :
        LET r == gc[g]
        IN  r.settle = "resolved" =>
              /\ NamedChunks(r) = 1..Len(chunks)
              /\ Cardinality(ChunkEntries(r.bundle)) = Len(chunks)
              /\ \A i \in NamedChunks(r) :
                    \E j \in ChunkEntries(r.bundle) :
                        /\ r.bundle[j].key = r.key[i]
                        /\ r.bundle[j].chunk = i
                        /\ r.bundle[j].code = g
                        /\ r.bundle[j].map = (r.outputOptions.sourcemap # "")
              /\ \A h \in GenCalls \ {g} :
                    \A id \in AssignedIds(gc[h]) \ AssignedIds(r) :
                        KeyIndex(r.bundle, id) = 0

C25_Witness ==
    \E g, h \in GenCalls :
        /\ g # h
        /\ Len(chunks) = 2
        /\ gc[g].settle = "resolved"
        /\ gc[h].settle = "resolved"
        /\ AssignedIds(gc[g]) \cap AssignedIds(gc[h]) = {}
        /\ \A i \in 1..2 : chunks[i].id = gc[h].key[i]
        /\ \A j \in 1..Len(gc[g].bundle) :
              ~gc[g].bundle[j].isAsset => gc[g].bundle[j].code = g

----------------------------------------------------------------------------
(* Properties of the written files *)

\* the source-map mode of a write call is on and not inline
ExternalMap(r) == r.raw.top.sourcemap \notin {"", "inline"}

\* C24: once write has started writing, every bundle entry has one file write,
\* at resolve(dir, fileName) when the options of the call have a dir and at
\* resolve(dirname(file), fileName) otherwise, and a second write, at that
\* path with .map appended, exactly when the entry is a chunk with a map and
\* the source-map mode of the call is on and not inline.  onwrite is
\* dispatched for a chunk only when its file write and, if there is one, its
\* map write succeeded; write resolves only when that holds for every entry;
\* and write is rejected as soon as a file write failed, or a map write
\* failed and the file write of its entry has settled.
C24_FileAndMapArePaired ==
    \A g \in GenCalls :
        LET r == gc[g]
        IN  /\ r.files # <<>> => Len(r.files) = Len(r.bundle)
            /\ \A j \in 1..Len(r.files) :
                  LET f == r.files[j]
                      e == r.bundle[j]
                      hasMapFile == ~e.isAsset /\ e.map /\ ExternalMap(r)
                  IN  /\ f.code # "none"
                      /\ f.filename =
                            IF r.raw.top.dir # ""
                              THEN resolve(Directory(r.raw.top.dir), e.fileName)
                              ELSE resolve(dirname(r.raw.top.file), e.fileName)
                      /\ (f.map # "none") = hasMapFile
                      /\ hasMapFile => f.mapFilename = WithMapSuffix(f.filename)
                      /\ ~hasMapFile => f.mapFilename = NoPath
                      /\ f.onwrite # "none" =>
                            ~e.isAsset /\ f.code = "ok" /\ (hasMapFile => f.map = "ok")
                      /\ f.state = "done" =>
                            f.code = "ok" /\ (hasMapFile => f.map = "ok")
                      /\ r.settle = "resolved" =>
                            f.code = "ok" /\ (hasMapFile => f.map = "ok")
                      /\ f.code = "failed" => r.settle = "rejected" /\ f.onwrite = "none"
                      /\ f.map = "failed" =>
                            /\ f.onwrite = "none"
                            /\ r.settle # "resolved"
                            /\ f.code # "pending" => r.settle = "rejected"

C24_Witness ==
    \E g \in GenCalls :
        /\ gc[g].api = "write"
        /\ gc[g].settle = "rejected"
        /\ \E j, k \in 1..Len(gc[g].files) :
              /\ gc[g].files[j].code = "ok"
              /\ gc[g].files[j].map = "failed"
              /\ gc[g].files[j].mapFilename = WithMapSuffix(gc[g].files[j].filename)
              /\ gc[g].files[j].onwrite = "none"
              /\ k # j
              /\ gc[g].files[k].onwrite = "ok"

----------------------------------------------------------------------------
(* Properties of renderError after the renders *)

\* every chunk render of the call has succeeded
AllRendersSucceeded(r) ==
    /\ r.block = "ok"
    /\ \A i \in Rendered(r) : r.render[i] = "ok"

\* C26 (as claimed): renderError is never dispatched in a call whose steps up
\* to and including all chunk renders succeeded.
C26_Claimed ==
    \A g \in GenCalls : AllRendersSucceeded(gc[g]) => gc[g].nRenderError = 0

\* C26: renderError is dispatched at most once per generate call, and never
\* in a call whose steps up to and including all chunk renders and all
\* ongenerate dispatches succeeded, that is, a call that reached
\* generateBundle: a failure of generateBundle, or of the asset finalisation
\* after it, rejects the call with that error and renderError is not
\* dispatched.
C26_RenderErrorOnlyBeforeGenerateBundle ==
    \A g \in GenCalls :
        LET r == gc[g]
        IN  /\ r.nRenderError <= 1
            /\ AllRendersSucceeded(r) /\ (\A i \in Rendered(r) : r.ongen[i] = "ok")
                  => r.nRenderError = 0 /\ r.generateBundle # "none"
            /\ r.generateBundle # "none" =>
                  r.nRenderError = 0 /\ r.renderError = "none"
            /\ r.generateBundle = "failed" =>
                  r.settle = "rejected" /\ r.value = PluginError("generateBundle")
            /\ r.finalise = "failed" =>
                  /\ r.generateBundle = "ok"
                  /\ r.settle = "rejected"
                  /\ r.value = PluginError("finaliseAsset")

C26_Witness ==
    \E g, h \in GenCalls :
        /\ gc[g].generateBundle = "failed"
        /\ gc[g].settle = "rejected"
        /\ gc[g].nRenderError = 0
        /\ gc[h].finalise = "failed"
        /\ gc[h].settle = "rejected"
        /\ gc[h].nRenderError = 0

----------------------------------------------------------------------------
(* Properties of a failing buildEnd *)

\* C22: in every rollup call whose buildEnd dispatch failed, buildEnd has been
\* dispatched once only, the promise is rejected (no handle is delivered) and
\* the rejection value is the error of the buildEnd dispatch, both when the
\* build had succeeded and when it had failed and buildEnd was given the
\* build error; the build error is the rejection value only when the buildEnd
\* hook failed with the very error it was given.
C22_BuildEndFailureShadows ==
    \A c \in Calls :
        rc[c].buildEnd = "failed" =>
            /\ rc[c].nBuildEnd = 1
            /\ rc[c].settle = "rejected"
            /\ rc[c].buildEndErr # NoError
            /\ rc[c].value = rc[c].buildEndErr
            /\ rc[c].build = "failed" => rc[c].buildEndArg = rc[c].buildErr
            /\ rc[c].build = "failed" /\ rc[c].buildEndErr # rc[c].buildErr
                  => rc[c].value # rc[c].buildErr
            /\ rc[c].build = "ok" => rc[c].buildEndArg = NoError

C22_Witness ==
    \E c, d \in Calls :
        /\ rc[c].build = "failed"
        /\ rc[c].buildErr = PluginError("build")
        /\ rc[c].buildEnd = "failed"
        /\ rc[c].value = PluginError("buildEnd")
        /\ rc[d].build = "ok"
        /\ rc[d].buildEnd = "failed"
        /\ rc[d].nBuildEnd = 1
        /\ rc[d].value = PluginError("buildEnd")

----------------------------------------------------------------------------
(* Properties of the watcher *)

\* C21 (as claimed): no two rollup() calls hand the same installed watcher to
\* a Graph, and after every rollup() call, one that failed in input
\* normalization or in the Graph constructor included, curWatcher is cleared.
C21_Claimed ==
    /\ [](\A c, d \in Calls :
            c # d /\ rc[c].watcher # 0 => rc[c].watcher # rc[d].watcher)
    /\ [][\A c \in Calls :
            rc[c] = IdleCall /\ rc'[c] # IdleCall => curWatcher' = 0]_vars

====
